---- MODULE Spec2Model ----
(***************************************************************************)
(* A model of the GeoNames API repository: the bulk loader                 *)
(* (src/loader/load-data.js) and the search service (src/api/server.js).   *)
(*                                                                         *)
(* Several specifications share this module:                               *)
(*   SpecAlt, SpecAltBurst  the event-driven alternate-names import of     *)
(*              loadAlternateNames (line handler, processQueue,            *)
(*              processBatch, close handler) on Node's event loop;         *)
(*   SpecLines  the same import over lines at the limits of processLine;   *)
(*   SpecRuns   whole loader runs (main) against the database tables;      *)
(*   SpecIngest successive runs with the fetch of the dumps and rows that  *)
(*              fail;                                                      *)
(*   SpecSearch, SpecPair  the /search query;                              *)
(*   SpecReverse           the /reverse query;                             *)
(*   SpecServe  requests of both handlers served side by side;             *)
(*   SpecAltLive  SpecAltBurst under weak fairness of the event loop;      *)
(*   SpecAuth   requests with and without a key at both routes;            *)
(*   SpecRegion the places load filling the table both routes read.        *)
(* Each specification moves its own variables and leaves the others at     *)
(* their initial values.                                                   *)
(***************************************************************************)
EXTENDS Integers, Sequences, FiniteSets, TLC

VARIABLES
  \* ---- loadAlternateNames: the readline pump (SpecAlt) ----
  nread,        \* lines of the file the 'line' event has delivered so far
  chunkLeft,    \* lines of the current 'data' chunk still to be delivered
  lineQueue,    \* let lineQueue = []
  batch,        \* let batch = []
  isProcessing, \* let isProcessing = false
  paused,       \* rl.paused (the input stream flows iff it is FALSE)
  eofKnown,     \* the input stream has read the end of the file
  endScheduled, \* the stream's 'end' (and so rl 'close') is due
  closed,       \* rl 'close' has been emitted
  immediates,   \* pending setImmediate(processQueue) callbacks
  micro,        \* pending promise continuations, in order
  pqWaiter,     \* who awaits the running processQueue: "none", "then", "close"
  qFlight,      \* the processBatch awaited by processQueue (line 655)
  cFlight,      \* the processBatch awaited by the close handler (line 688)
  count,        \* let count = 0
  resolved,     \* the promise of loadAlternateNames is resolved
  applied,      \* history, per line number: how many times processRow ran for it
  fileLines,    \* the number of lines of alternateNamesV2.txt
  chunkCap,     \* the most lines one 'data' chunk of the input stream holds
  \* ---- the database tables (createTables, lines 22-93) ----
  countries,       \* country_code -> row
  cities,          \* geonameid -> row
  alternate_names, \* alternatenameid -> row
  \* ---- loader runs: main (SpecRuns) ----
  pc,           \* per run: the stage main has reached
  ci,           \* per run: rows of the seed list loadCountriesData has upserted
  cityPos,      \* per run: rows of the places dump the 'data' event has delivered
  pendingCity,  \* per run: rows whose INSERT INTO cities is issued and not done
  altPos,       \* per run: the line of the alternate-names dump being applied
  altPhase,     \* per run: the query of processRow awaited: "check", "insert"
  files,        \* the extracted dump files in /app/data
  env,          \* process.env.SUPPORTED_LANGUAGES of the loader
  cityCountAtStart, \* history, per run: COUNT(*) of cities read by loadCitiesData
  altCountAtStart,  \* history, per run: COUNT(*) of alternate_names read
  cityWork,     \* history, per run: downloads, rows and INSERTs of loadCitiesData
  altWork,      \* history, per run: downloads, rows and queries of loadAlternateNames
  ignored,      \* history: the <<table, id>> of every INSERT that met a stored id
  raced,        \* history: an existence check missed a place whose INSERT was pending
  overlapped,   \* history: run 2 started before run 1 had ended
  snap1,        \* history: the three tables when run 1 ended
  \* ---- GET /search (SpecSearch) ----
  req,          \* the request being served
  resp,         \* its response
  prev          \* history: the request answered before, with its response

altVars == <<nread, chunkLeft, lineQueue, batch, isProcessing, paused, eofKnown,
             endScheduled, closed, immediates, micro, pqWaiter, qFlight, cFlight,
             count, resolved, applied, fileLines, chunkCap>>
dbVars == <<countries, cities, alternate_names>>

runVars == <<pc, ci, cityPos, pendingCity, altPos, altPhase, files, env,
             cityCountAtStart, altCountAtStart, cityWork, altWork, ignored,
             raced, overlapped, snap1>>
searchVars == <<req, resp, prev>>

vars == <<altVars, dbVars, runVars, searchVars>>

----------------------------------------------------------------------------
(* Bounds of the model.  The three thresholds of the pump are scaled down  *)
(* from the source (BATCH_SIZE 100 at line 532, 1000 at line 669, 500 at   *)
(* line 672), keeping their order BATCH_SIZE <= QUEUE_LOW < QUEUE_HIGH.    *)
BATCH_SIZE == 1
QUEUE_HIGH == 2
QUEUE_LOW == 1
\* SpecAlt: a file longer than what the pump can hold back.
NumLines == 7
ChunkMax == 3
\* SpecAltBurst: a file whose chunks hold more than twice QUEUE_HIGH lines,
\* and longer than QUEUE_HIGH lines and a chunk together.
BurstLines == 10
BurstChunk == 6

Min(a, b) == IF a < b THEN a ELSE b

----------------------------------------------------------------------------
(* Lines of alternateNamesV2.txt.  A line is the tuple of its tab-separated *)
(* columns; a column is a sequence of characters.                           *)
Digit == <<"0", "1", "2", "3", "4", "5", "6", "7", "8", "9">>

RECURSIVE Digits(_)
Digits(n) == IF n < 10 THEN <<Digit[n + 1]>>
             ELSE Digits(n \div 10) \o <<Digit[(n % 10) + 1]>>

LineKinds == {"row", "short"}

\* A name of n characters.
LongName(n) == [k \in 1..n |-> "x"]

\* The i-th line of the file, of the given kind: a well-formed row naming
\* place 1, a line of three columns or of seven, or a row that differs from
\* the well-formed one in its language or in its name.
MkLine(i, kind) ==
  LET row(lang, name) == <<Digits(i), <<"1">>, lang, name, <<>>, <<>>, <<>>, <<>> >>
      Name == <<"N","a","m","e">>
  IN
  CASE kind = "row"     -> row(<<"e","n">>, Name)
    [] kind = "short"   -> <<Digits(i), <<"1">>, <<"e","n">> >>
    [] kind = "cols7"   -> <<Digits(i), <<"1">>, <<"e","n">>, Name, <<>>, <<>>, <<>> >>
    [] kind = "nolang"  -> row(<<>>, Name)
    [] kind = "lang7"   -> row(<<"z","h","-","H","a","n","t">>, Name)
    [] kind = "lang8"   -> row(<<"z","h","-","H","a","n","t","s">>, Name)
    [] kind = "noname"  -> row(<<"e","n">>, <<>>)
    [] kind = "name400" -> row(<<"e","n">>, LongName(400))
    [] kind = "name401" -> row(<<"e","n">>, LongName(401))
    [] kind = "FR"      -> row(<<"F","R">>, Name)
    [] kind = "de"      -> row(<<"d","e">>, Name)

\* A query parameter, a header or an environment variable that is not there.
Absent == <<"undefined">>

\* String.prototype.split(',') and trim.
RECURSIVE split(_, _)
split(s, cur) ==
  IF s = <<>> THEN <<cur>>
  ELSE IF Head(s) = "," THEN <<cur>> \o split(Tail(s), <<>>)
  ELSE split(Tail(s), Append(cur, Head(s)))

RECURSIVE trim(_)
trim(s) ==
  IF s = <<>> THEN s
  ELSE IF Head(s) = " " THEN trim(Tail(s))
  ELSE IF s[Len(s)] = " " THEN trim(SubSeq(s, 1, Len(s) - 1))
  ELSE s

LowerCaseSeq ==
  <<"a","b","c","d","e","f","g","h","i","j","k","l","m",
    "n","o","p","q","r","s","t","u","v","w","x","y","z">>
UpperCaseSeq ==
  <<"A","B","C","D","E","F","G","H","I","J","K","L","M",
    "N","O","P","Q","R","S","T","U","V","W","X","Y","Z">>
LetterIndex(c, alphabet) == CHOOSE i \in 1..Len(alphabet) : alphabet[i] = c
IsIn(c, alphabet) == \E i \in 1..Len(alphabet) : alphabet[i] = c

LowerOf(c) == IF IsIn(c, UpperCaseSeq) THEN LowerCaseSeq[LetterIndex(c, UpperCaseSeq)] ELSE c
UpperOf(c) == IF IsIn(c, LowerCaseSeq) THEN UpperCaseSeq[LetterIndex(c, LowerCaseSeq)] ELSE c

\* String.prototype.toLowerCase and toUpperCase on the letters A-Z, a-z.
RECURSIVE toLowerCase(_)
toLowerCase(s) == IF s = <<>> THEN <<>> ELSE <<LowerOf(Head(s))>> \o toLowerCase(Tail(s))

RECURSIVE toUpperCase(_)
toUpperCase(s) == IF s = <<>> THEN <<>> ELSE <<UpperOf(Head(s))>> \o toUpperCase(Tail(s))

\* SUPPORTED_LANGUAGES (lines 18-20): the items of the variable, trimmed and
\* in lower case; NoLanguages stands for null, the value when the variable is
\* unset or empty.
NoLanguages == {<<"null">>}
SUPPORTED_LANGUAGES ==
  IF env = Absent \/ env = <<>> THEN NoLanguages
  ELSE {toLowerCase(trim(split(env, <<>>)[i])) : i \in 1..Len(split(env, <<>>))}

\* A processLine without the tests of the lengths.
processLineAnyLength(line, b) ==
  IF Len(line) < 4 THEN b
  ELSE LET col(k) == IF k <= Len(line) THEN line[k] ELSE <<>>
           row == [alternatenameid |-> line[1], geonameid |-> line[2],
                   isolanguage |-> line[3], alternate_name |-> line[4],
                   is_preferred_name |-> col(5), is_short_name |-> col(6),
                   is_colloquial |-> col(7), is_historic |-> col(8)]
           shouldInclude == \/ SUPPORTED_LANGUAGES = NoLanguages
                            \/ toLowerCase(row.isolanguage) \in SUPPORTED_LANGUAGES
                            \/ <<"a","l","l">> \in SUPPORTED_LANGUAGES
       IN IF shouldInclude THEN Append(b, row) ELSE b

\* A processLine without the test of the language list.
processLineAnyLanguage(line, b) ==
  IF Len(line) < 8 THEN b
  ELSE LET row == [alternatenameid |-> line[1], geonameid |-> line[2],
                   isolanguage |-> line[3], alternate_name |-> line[4],
                   is_preferred_name |-> line[5], is_short_name |-> line[6],
                   is_colloquial |-> line[7], is_historic |-> line[8]]
       IN IF /\ row.isolanguage # <<>> /\ Len(row.isolanguage) <= 7
             /\ row.alternate_name # <<>> /\ Len(row.alternate_name) <= 400
          THEN Append(b, row)
          ELSE b

\* processLine (lines 604-641): the batch after the line; the progress log is
\* left out.  A JavaScript empty string is falsy.
processLine(line, b) ==
  IF Len(line) < 8 THEN b
  ELSE LET row == [alternatenameid |-> line[1], geonameid |-> line[2],
                   isolanguage |-> line[3], alternate_name |-> line[4],
                   is_preferred_name |-> line[5], is_short_name |-> line[6],
                   is_colloquial |-> line[7], is_historic |-> line[8]]
           shouldInclude == \/ SUPPORTED_LANGUAGES = NoLanguages
                            \/ toLowerCase(row.isolanguage) \in SUPPORTED_LANGUAGES
                            \/ <<"a","l","l">> \in SUPPORTED_LANGUAGES
       IN IF /\ row.isolanguage # <<>> /\ Len(row.isolanguage) <= 7
             /\ row.alternate_name # <<>> /\ Len(row.alternate_name) <= 400
             /\ shouldInclude
          THEN Append(b, row)
          ELSE b

----------------------------------------------------------------------------
(* JavaScript's parseInt on a column: the number its leading digits spell,  *)
(* or NaN when it does not start with a digit.                              *)
DigitValue(c) ==
  CASE c = "0" -> 0 [] c = "1" -> 1 [] c = "2" -> 2 [] c = "3" -> 3 [] c = "4" -> 4
    [] c = "5" -> 5 [] c = "6" -> 6 [] c = "7" -> 7 [] c = "8" -> 8 [] c = "9" -> 9
    [] OTHER -> -1

RECURSIVE parseDigits(_, _)
parseDigits(s, acc) ==
  IF s = <<>> \/ DigitValue(Head(s)) < 0 THEN acc
  ELSE parseDigits(Tail(s), 10 * acc + DigitValue(Head(s)))

\* A parsed number, NaN, or SQL NULL.
Num(n) == [t |-> "num", v |-> n]
NaN == [t |-> "NaN", v |-> 0]
Null == [t |-> "null", v |-> 0]

parseInt(s) == IF s = <<>> \/ DigitValue(Head(s)) < 0 THEN NaN ELSE Num(parseDigits(s, 0))

\* An INSERT that replaces the row of an existing key.
InsertOverwrite(table, key, row) ==
  [k \in DOMAIN table \cup {key} |-> IF k = key THEN row ELSE table[k]]

\* A table with one more row; an existing key keeps its row
\* (INSERT ... ON CONFLICT (key) DO NOTHING).
InsertIgnore(table, key, row) ==
  IF key \in DOMAIN table THEN table
  ELSE [k \in DOMAIN table \cup {key} |-> IF k = key THEN row ELSE table[k]]

\* An upsert whose conflict clause updates nothing.
UpsertKeepsOld(table, key, row) ==
  [k \in DOMAIN table \cup {key} |-> IF k \in DOMAIN table THEN table[k] ELSE row]

\* INSERT ... ON CONFLICT (key) DO UPDATE SET every other column.
Upsert(table, key, row) ==
  [k \in DOMAIN table \cup {key} |-> IF k = key THEN row ELSE table[k]]

EmptyTable == [k \in {} |-> {}]

\* A processRow that inserts without looking the place up.
cityUnchecked(tbl, row) == parseInt(row.geonameid) # NaN

\* The SELECT of processRow (lines 539-542): is there a cities row with this
\* geonameid?  A NaN parameter matches no row.
cityExists(tbl, row) ==
  LET id == parseInt(row.geonameid) IN id # NaN /\ id.v \in DOMAIN tbl

\* The INSERT of processRow (lines 545-558).  A NaN alternatenameid makes the
\* statement fail, which processRow's catch swallows.
AltRecord(row) ==
  [geonameid |-> parseInt(row.geonameid).v, isolanguage |-> row.isolanguage,
   alternate_name |-> row.alternate_name,
   is_preferred_name |-> (row.is_preferred_name = <<"1">>),
   is_short_name |-> (row.is_short_name = <<"1">>),
   is_colloquial |-> (row.is_colloquial = <<"1">>),
   is_historic |-> (row.is_historic = <<"1">>)]

insertAlternateName(tbl, row) ==
  LET id == parseInt(row.alternatenameid) IN
  IF id = NaN THEN tbl ELSE InsertIgnore(tbl, id.v, AltRecord(row))

\* processRow (lines 536-566) as one step: the alternate_names table after
\* it, and the 1 or 0 it returns.
processRowTable(ctbl, atbl, row) ==
  IF cityExists(ctbl, row) THEN insertAlternateName(atbl, row) ELSE atbl

processRowCount(ctbl, row) ==
  IF cityExists(ctbl, row) /\ parseInt(row.alternatenameid) # NaN THEN 1 ELSE 0

----------------------------------------------------------------------------
(* The dumps and the seed list the loader reads.                           *)

\* JavaScript's parseFloat on a column, to the hundredth: an optional sign,
\* digits, an optional point and fraction digits; NaN otherwise.
Frac2(s) ==
  IF s = <<>> \/ DigitValue(Head(s)) < 0 THEN 0
  ELSE 10 * DigitValue(Head(s)) +
       (IF Len(s) < 2 \/ DigitValue(s[2]) < 0 THEN 0 ELSE DigitValue(s[2]))

RECURSIVE SkipDigits(_)
SkipDigits(s) == IF s = <<>> \/ DigitValue(Head(s)) < 0 THEN s ELSE SkipDigits(Tail(s))

parseUnsigned(s) ==
  IF s = <<>> \/ DigitValue(Head(s)) < 0 THEN NaN
  ELSE LET rest == SkipDigits(s) IN
       Num(100 * parseDigits(s, 0) +
           (IF rest # <<>> /\ Head(rest) = "." THEN Frac2(Tail(rest)) ELSE 0))

parseFloat(s) ==
  IF s # <<>> /\ Head(s) = "-"
  THEN LET u == parseUnsigned(Tail(s)) IN IF u = NaN THEN NaN ELSE Num(0 - u.v)
  ELSE parseUnsigned(s)

\* Rows of the static list of loadCountriesData (lines 163-413): the rows of
\* lines 265 and 268.  Coordinates are in hundredths of a degree.
CountrySeed ==
  << [code |-> <<"I","E">>, name |-> <<"I","r","e","l","a","n","d">>,
      lat |-> Num(5300), lng |-> Num(-800),
      languages |-> <<"e","n",",","g","a">>,
      translations |-> [l \in {<<"e","n">>} |-> <<"I","r","e","l","a","n","d">>]],
     [code |-> <<"I","N">>, name |-> <<"I","n","d","i","a">>,
      lat |-> Num(2000), lng |-> Num(7700),
      languages |-> <<"h","i",",","e","n">>,
      translations |-> [l \in {<<"e","n">>} |-> <<"I","n","d","i","a">>]] >>

\* The columns the upsert of lines 415-426 writes.
CountryRecord(c) ==
  [name |-> c.name, latitude |-> c.lat, longitude |-> c.lng,
   spoken_languages |-> c.languages, name_translations |-> c.translations]

\* A countries table an earlier version of the loader left: India under
\* another name, and a country the list does not have.
StaleCountries ==
  [k \in {<<"I","N">>, <<"Z","Z">>} |->
     [name |-> <<"O","l","d">>, latitude |-> Num(0), longitude |-> Num(0),
      spoken_languages |-> <<>>,
      name_translations |-> [l \in {<<"e","n">>} |-> <<"O","l","d">>]]]

UpperCaseLetters == {UpperCaseSeq[i] : i \in 1..Len(UpperCaseSeq)}

\* A row of the places dump as csv-parser delivers it (headers of lines
\* 456-462), with the columns the INSERT reads.
PlaceRow(id, name, cc, lat, lon) ==
  [geonameid |-> id, name |-> name, asciiname |-> name, alternatenames |-> <<>>,
   latitude |-> lat, longitude |-> lon,
   feature_class |-> <<"P">>, feature_code |-> <<"P","P","L">>,
   country_code |-> cc, admin1_code |-> <<>>,
   population |-> <<"5">>, elevation |-> <<>>,
   timezone |-> <<>>, modification_date |-> <<>>]

\* The places dump: two places, and a second row with the id of the first.
PlacesDump ==
  << PlaceRow(<<"1">>, <<"P","a">>, <<"I","N">>, <<"1","0">>, <<"2","0">>),
     PlaceRow(<<"2">>, <<"P","b">>, <<"I","E">>, <<"5","3">>, <<"-","8">>),
     PlaceRow(<<"1">>, <<"P","c">>, <<"I","N">>, <<"1","1">>, <<"2","1">>) >>

\* An INSERT that stores the admin1 code of the row as the name of its
\* region.
CityRecordWithRegion(row) ==
  [name |-> row.name, ascii_name |-> row.asciiname,
   alternatenames |-> row.alternatenames,
   latitude |-> parseFloat(row.latitude), longitude |-> parseFloat(row.longitude),
   feature_class |-> row.feature_class, feature_code |-> row.feature_code,
   country_code |-> row.country_code, admin1_code |-> row.admin1_code,
   admin1_name |-> [t |-> "text", v |-> row.admin1_code],
   population |-> IF row.population # <<>> THEN parseInt(row.population) ELSE Null,
   elevation |-> IF row.elevation # <<>> THEN parseInt(row.elevation) ELSE Null,
   timezone |-> row.timezone,
   modification_date |-> IF row.modification_date # <<>>
                         THEN [t |-> "date", v |-> row.modification_date]
                         ELSE Null]

\* The parameters of the INSERT of lines 471-485.
CityRecord(row) ==
  [name |-> row.name, ascii_name |-> row.asciiname,
   alternatenames |-> row.alternatenames,
   latitude |-> parseFloat(row.latitude), longitude |-> parseFloat(row.longitude),
   feature_class |-> row.feature_class, feature_code |-> row.feature_code,
   country_code |-> row.country_code, admin1_code |-> row.admin1_code,
   admin1_name |-> Null,
   population |-> IF row.population # <<>> THEN parseInt(row.population) ELSE Null,
   elevation |-> IF row.elevation # <<>> THEN parseInt(row.elevation) ELSE Null,
   timezone |-> row.timezone,
   modification_date |-> IF row.modification_date # <<>>
                         THEN [t |-> "date", v |-> row.modification_date]
                         ELSE Null]

\* The statement fails, and the catch of line 491 swallows the error, when an
\* integer parameter is NaN.
cityInsertFails(row) ==
  \/ parseInt(row.geonameid) = NaN
  \/ CityRecord(row).population = NaN
  \/ CityRecord(row).elevation = NaN

\* INSERT INTO cities ... ON CONFLICT (geonameid) DO NOTHING (lines 471-485).
insertCity(tbl, row) ==
  IF cityInsertFails(row) THEN tbl
  ELSE InsertIgnore(tbl, parseInt(row.geonameid).v, CityRecord(row))

\* A line of alternateNamesV2.txt with its eight columns.
AltLine(id, place, lang, name) == <<id, place, lang, name, <<>>, <<>>, <<>>, <<>> >>

\* The alternate-names dump: a name of place 1, a name of a place the places
\* dump does not have, a line of three columns, a second line with the id of
\* the first, and a name of place 2.
AltDump ==
  << AltLine(<<"1">>, <<"1">>, <<"e","n">>, <<"N","a">>),
     AltLine(<<"2">>, <<"7">>, <<"e","n">>, <<"N","x">>),
     <<(<<"3">>), (<<"1">>), (<<"e","n">>)>>,
     AltLine(<<"1">>, <<"2">>, <<"f","r">>, <<"N","b">>),
     AltLine(<<"4">>, <<"2">>, <<"e","n">>, <<"N","c">>) >>

\* The rows processLine (lines 604-641) keeps of a sequence of lines.
RECURSIVE ParseLines(_, _)
ParseLines(lines, b) ==
  IF lines = <<>> THEN b ELSE ParseLines(Tail(lines), processLine(Head(lines), b))

AltRows == ParseLines(AltDump, <<>>)

\* The place the alternate names of SpecAlt's file refer to.
Place1 == CityRecord(PlacesDump[1])

----------------------------------------------------------------------------
(* SpecAlt: the pump of loadAlternateNames (lines 591-697) on Node's event  *)
(* loop.  Each action is one run-to-completion piece of JavaScript: the     *)
(* handler of one 'line' event, one setImmediate callback, one promise      *)
(* continuation, the continuation after one awaited query.  The 'line'      *)
(* events of one 'data' chunk are emitted in one synchronous loop of        *)
(* readline, whether or not rl.pause() was called meanwhile, so nothing     *)
(* else runs while chunkLeft > 0, and promise continuations (micro) run     *)
(* before the next event.  The stream's 'end' is emitted from the next-tick *)
(* queue, so it precedes every other event once it is due; setImmediate     *)
(* callbacks run in the check phase that follows the poll phase of their    *)
(* chunk, so they precede the stream's next read completion, but not the    *)
(* completion of a query that became ready in the same poll phase.          *)

\* A running processBatch: its rows, the row being applied, its batchCount.
NoFlight == [rows |-> <<>>, idx |-> 0, cnt |-> 0]
Flight(rows) == [rows |-> rows, idx |-> 1, cnt |-> 0]
Active(f) == f.rows # <<>>
InFlight == (IF Active(qFlight) THEN 1 ELSE 0) + (IF Active(cFlight) THEN 1 ELSE 0)

\* A loop that goes through the whole queue and never stops at a full batch.
RECURSIVE DrainUnbatched(_, _)
DrainUnbatched(q, b) ==
  IF q = <<>> THEN [queue |-> q, batch |-> b, full |-> Len(b) >= BATCH_SIZE]
  ELSE DrainUnbatched(Tail(q), processLine(Head(q), b))

\* The while loop of processQueue (lines 648-660) up to its next await or
\* its end: the queue and the batch it leaves, and whether it stopped at a
\* full batch (line 653).
RECURSIVE Drain(_, _)
Drain(q, b) ==
  IF q = <<>> THEN [queue |-> q, batch |-> b, full |-> FALSE]
  ELSE LET b2 == processLine(Head(q), b) IN
       IF Len(b2) >= BATCH_SIZE THEN [queue |-> Tail(q), batch |-> b2, full |-> TRUE]
       ELSE Drain(Tail(q), b2)

\* The 'end' of the input stream is due: its next-tick callback runs first.
EndDue == endScheduled /\ ~closed

\* Whether Drain stops at a full batch, which starts a processBatch.
StartsBatch(q, b) == Drain(q, b).full

\* A call of processQueue (lines 643-663) with the queue q and rl.paused = p,
\* up to its first await or its end.  A call that finds isProcessing set
\* returns at once.  A call that returns without awaiting a batch hands
\* `cont`, its caller's continuation, to the microtask queue m ("" for a
\* caller that has none: setImmediate); one that awaits a batch leaves its
\* caller, `waiter`, waiting.
CallProcessQueue(q, m, p, waiter, cont) ==
  LET d == Drain(q, batch)
      m2 == IF cont = "" THEN m ELSE Append(m, cont)
  IN IF isProcessing
     THEN /\ lineQueue' = q
          /\ paused' = p
          /\ micro' = m2
          /\ UNCHANGED <<batch, isProcessing, qFlight, pqWaiter>>
     ELSE /\ lineQueue' = d.queue
          /\ batch' = d.batch
          /\ IF StartsBatch(q, batch)
             THEN /\ isProcessing' = TRUE
                  /\ paused' = TRUE                \* rl.pause(), line 654
                  /\ qFlight' = Flight(d.batch)    \* processBatch(batch), line 655
                  /\ pqWaiter' = waiter
                  /\ micro' = m
             ELSE /\ isProcessing' = FALSE
                  /\ paused' = p
                  /\ micro' = m2
                  /\ UNCHANGED <<qFlight, pqWaiter>>

\* The input stream emits a 'data' chunk of k lines.
StreamData(k) ==
  /\ ~paused /\ ~closed /\ ~EndDue
  /\ chunkLeft = 0 /\ micro = <<>> /\ immediates = 0
  /\ nread < fileLines
  /\ k \in 1..Min(chunkCap, fileLines - nread)
  /\ chunkLeft' = k
  /\ UNCHANGED <<nread, lineQueue, batch, isProcessing, paused, eofKnown,
                 endScheduled, closed, immediates, micro, pqWaiter, qFlight,
                 cFlight, count, resolved, applied, fileLines, chunkCap, dbVars, runVars, searchVars>>

\* rl.on('line') (lines 665-680) for the next line of the chunk.
LineEvent(kind) ==
  /\ chunkLeft > 0
  /\ nread' = nread + 1
  /\ chunkLeft' = chunkLeft - 1
  /\ LET q == Append(lineQueue, MkLine(nread + 1, kind)) IN
     IF Len(q) > QUEUE_HIGH
     THEN \* rl.pause(); processQueue().then(...)
          /\ CallProcessQueue(q, micro, TRUE, "then", "then")
          /\ UNCHANGED immediates
     ELSE \* setImmediate(processQueue)
          /\ lineQueue' = q
          /\ immediates' = immediates + 1
          /\ UNCHANGED <<batch, isProcessing, paused, micro, pqWaiter, qFlight>>
  /\ UNCHANGED <<eofKnown, endScheduled, closed, cFlight, count, resolved,
                 applied, fileLines, chunkCap, dbVars, runVars, searchVars>>

\* A setImmediate(processQueue) callback runs (line 678).
Immediate ==
  /\ immediates > 0 /\ ~EndDue
  /\ chunkLeft = 0 /\ micro = <<>>
  /\ immediates' = immediates - 1
  /\ CallProcessQueue(lineQueue, micro, paused, "none", "")
  /\ UNCHANGED <<nread, chunkLeft, eofKnown, endScheduled, closed, cFlight,
                 count, resolved, applied, fileLines, chunkCap, dbVars, runVars, searchVars>>

\* The input stream reads the end of the file.  A flowing stream emits 'end'
\* next; a paused one emits it after the next resume().
EofArrives ==
  /\ nread = fileLines /\ ~eofKnown
  /\ chunkLeft = 0 /\ micro = <<>> /\ immediates = 0
  /\ eofKnown' = TRUE
  /\ endScheduled' = ~paused
  /\ UNCHANGED <<nread, chunkLeft, lineQueue, batch, isProcessing, paused, closed,
                 immediates, micro, pqWaiter, qFlight, cFlight, count, resolved,
                 applied, fileLines, chunkCap, dbVars, runVars, searchVars>>

\* rl.resume() when rl.paused is p: the stream's resume is scheduled for the
\* next tick, where a stream that knows its end, with nothing left to
\* deliver, schedules 'end' even if it has been paused again meanwhile.
EndAfterResume(p) == endScheduled \/ (p /\ eofKnown /\ nread = fileLines)

\* rl.on('close') (lines 682-694) up to the end of its await processQueue().
\* readline's close() pauses the interface before it emits 'close'.
CloseEvent ==
  /\ endScheduled /\ ~closed
  /\ chunkLeft = 0 /\ micro = <<>>
  /\ closed' = TRUE
  /\ CallProcessQueue(lineQueue, micro, TRUE, "close", "close")
  /\ UNCHANGED <<nread, chunkLeft, eofKnown, endScheduled, immediates, cFlight,
                 count, resolved, applied, fileLines, chunkCap, dbVars, runVars, searchVars>>

\* The .then callback of the line handler (lines 671-675).
ThenCallback ==
  /\ chunkLeft = 0
  /\ micro # <<>> /\ Head(micro) = "then"
  /\ micro' = Tail(micro)
  /\ IF Len(lineQueue) < QUEUE_LOW
     THEN /\ paused' = FALSE                       \* rl.resume(), line 673
          /\ endScheduled' = EndAfterResume(paused)
     ELSE UNCHANGED <<paused, endScheduled>>
  /\ UNCHANGED <<nread, chunkLeft, lineQueue, batch, isProcessing, eofKnown, closed,
                 immediates, pqWaiter, qFlight, cFlight, count, resolved, applied,
                 fileLines, chunkCap, dbVars, runVars, searchVars>>

\* The close handler after its await processQueue() (lines 686-693): the
\* final flush of `batch`, or the end of the import.
CloseFlush ==
  /\ chunkLeft = 0
  /\ micro # <<>> /\ Head(micro) = "close"
  /\ micro' = Tail(micro)
  /\ IF Len(batch) > 0
     THEN /\ cFlight' = Flight(batch)              \* processBatch(batch), line 688
          /\ UNCHANGED resolved
     ELSE /\ resolved' = TRUE                      \* resolve(), line 693
          /\ UNCHANGED cFlight
  /\ UNCHANGED <<nread, chunkLeft, lineQueue, batch, isProcessing, paused, eofKnown,
                 endScheduled, closed, immediates, pqWaiter, qFlight, count,
                 applied, fileLines, chunkCap, dbVars, runVars, searchVars>>

\* The line number of a row of this file (its alternatenameid column).
LineOf(row) == parseInt(row.alternatenameid).v

\* processRow (line 577) completes for the current row of flight f.
AfterRow(f) ==
  [f EXCEPT !.idx = f.idx + 1, !.cnt = f.cnt + processRowCount(cities, f.rows[f.idx])]

ApplyRow(f) ==
  /\ alternate_names' = processRowTable(cities, alternate_names, f.rows[f.idx])
  /\ applied' = [applied EXCEPT ![LineOf(f.rows[f.idx])] = @ + 1]
  /\ UNCHANGED <<countries, cities>>

\* A row of the batch awaited by processQueue is applied.  After the last
\* one processQueue goes on (lines 656-662): count, batch = [], rl.resume(),
\* and its loop up to the next full batch or the end of the queue, where the
\* promise its caller holds is resolved.
QueueRow ==
  /\ Active(qFlight) /\ ~EndDue
  /\ chunkLeft = 0 /\ micro = <<>>
  /\ ApplyRow(qFlight)
  /\ IF qFlight.idx < Len(qFlight.rows)
     THEN /\ qFlight' = AfterRow(qFlight)
          /\ UNCHANGED <<lineQueue, batch, isProcessing, paused, endScheduled,
                         micro, pqWaiter, count>>
     ELSE LET d == Drain(lineQueue, <<>>) IN
          /\ count' = count + AfterRow(qFlight).cnt
          /\ endScheduled' = EndAfterResume(paused)
          /\ lineQueue' = d.queue
          /\ batch' = d.batch
          /\ IF StartsBatch(lineQueue, <<>>)
             THEN /\ paused' = TRUE
                  /\ qFlight' = Flight(d.batch)
                  /\ UNCHANGED <<isProcessing, micro, pqWaiter>>
             ELSE /\ paused' = FALSE
                  /\ qFlight' = NoFlight
                  /\ isProcessing' = FALSE
                  /\ micro' = IF pqWaiter = "none" THEN micro ELSE Append(micro, pqWaiter)
                  /\ pqWaiter' = "none"
  /\ UNCHANGED <<nread, chunkLeft, eofKnown, closed, immediates, cFlight, resolved,
                 fileLines, chunkCap, runVars, searchVars>>

\* A row of the close handler's final batch is applied; after the last one
\* the import is reported complete (lines 689-693).
CloseRow ==
  /\ Active(cFlight) /\ ~EndDue
  /\ chunkLeft = 0 /\ micro = <<>>
  /\ ApplyRow(cFlight)
  /\ IF cFlight.idx < Len(cFlight.rows)
     THEN /\ cFlight' = AfterRow(cFlight)
          /\ UNCHANGED <<count, resolved>>
     ELSE /\ cFlight' = NoFlight
          /\ count' = count + AfterRow(cFlight).cnt
          /\ resolved' = TRUE
  /\ UNCHANGED <<nread, chunkLeft, lineQueue, batch, isProcessing, paused, eofKnown,
                 endScheduled, closed, immediates, micro, pqWaiter, qFlight,
                 fileLines, chunkCap, runVars, searchVars>>

PumpInit(n, c) ==
  /\ nread = 0 /\ chunkLeft = 0
  /\ lineQueue = <<>> /\ batch = <<>>
  /\ isProcessing = FALSE /\ paused = FALSE
  /\ eofKnown = FALSE /\ endScheduled = FALSE /\ closed = FALSE
  /\ immediates = 0 /\ micro = <<>> /\ pqWaiter = "none"
  /\ qFlight = NoFlight /\ cFlight = NoFlight
  /\ count = 0 /\ resolved = FALSE
  /\ applied = [i \in 1..n |-> 0]
  /\ fileLines = n /\ chunkCap = c

Runs == {1, 2}

RunsIdleOn(f, e) ==
  /\ pc = [r \in Runs |-> "idle"]
  /\ ci = [r \in Runs |-> 0]
  /\ cityPos = [r \in Runs |-> 0]
  /\ pendingCity = [r \in Runs |-> {}]
  /\ altPos = [r \in Runs |-> 0]
  /\ altPhase = [r \in Runs |-> "check"]
  /\ files = f
  /\ env = e
  /\ cityCountAtStart = [r \in Runs |-> 0]
  /\ altCountAtStart = [r \in Runs |-> 0]
  /\ cityWork = [r \in Runs |-> 0]
  /\ altWork = [r \in Runs |-> 0]
  /\ ignored = {}
  /\ raced = FALSE
  /\ overlapped = FALSE
  /\ snap1 = <<EmptyTable, EmptyTable, EmptyTable>>

\* No run has started, /app/data is empty and SUPPORTED_LANGUAGES is unset.
RunsIdle == RunsIdleOn({}, Absent)

\* No request is being served; no response has been sent.
NoRequest ==
  [path |-> "none", apiKey |-> Absent, q |-> Absent, country |-> Absent,
   type |-> Absent, autocomplete |-> Absent, limit |-> Absent]
NoResponse == [status |-> 0, error |-> "", rows |-> <<>>, results |-> <<>>]

NoPair == [req |-> NoRequest, resp |-> NoResponse]

SearchIdle == req = NoRequest /\ resp = NoResponse /\ prev = NoPair

AltInit(n, c) ==
  /\ PumpInit(n, c)
  /\ countries = EmptyTable
  /\ cities = [k \in {1} |-> Place1]
  /\ alternate_names = EmptyTable
  /\ RunsIdle
  /\ SearchIdle

AltNext ==
  \/ \E k \in 1..chunkCap : StreamData(k)
  \/ \E kind \in LineKinds : LineEvent(kind)
  \/ Immediate
  \/ EofArrives
  \/ CloseEvent
  \/ ThenCallback
  \/ CloseFlush
  \/ QueueRow
  \/ CloseRow

SpecAlt == AltInit(NumLines, ChunkMax) /\ [][AltNext]_vars

SpecAltBurst == AltInit(BurstLines, BurstChunk) /\ [][AltNext]_vars

\* SpecAltBurst with the event loop running an event that is ready: a chunk
\* or the end of the file that the stream has read, a callback that is due,
\* a query of the store that returns.
SpecAltLive == AltInit(BurstLines, BurstChunk) /\ [][AltNext]_vars /\ WF_vars(AltNext)

----------------------------------------------------------------------------
(* SpecLines: the import of loadAlternateNames over files of two lines of   *)
(* every kind, followed by well-formed rows up to one line more than the    *)
(* queue holds before the reader is paused, under each setting of           *)
(* SUPPORTED_LANGUAGES.  Here files.alt is alternateNamesV2.txt, as the     *)
(* kinds of its lines.                                                      *)

FilterKinds ==
  {"row", "short", "cols7", "nolang", "lang7", "lang8", "noname", "name400",
   "name401", "FR", "de"}

\* Values of SUPPORTED_LANGUAGES: unset, "", "en", "EN, fr", "all", "fr,ALL".
LanguageSettings ==
  {Absent, <<>>, <<"e","n">>, <<"E","N",","," ","f","r">>, <<"a","l","l">>,
   <<"f","r",",","A","L","L">>}

LinesInit ==
  /\ PumpInit(QUEUE_HIGH + 1, QUEUE_HIGH + 1)
  /\ countries = EmptyTable
  /\ cities = [k \in {1} |-> Place1]
  /\ alternate_names = EmptyTable
  /\ \E k1, k2 \in FilterKinds, e \in LanguageSettings :
        RunsIdleOn([alt |-> <<k1, k2>> \o [i \in 1..(QUEUE_HIGH - 1) |-> "row"]], e)
  /\ SearchIdle

LinesNext ==
  \/ \E k \in 1..chunkCap : StreamData(k)
  \/ chunkLeft > 0 /\ LineEvent(files.alt[nread + 1])
  \/ Immediate
  \/ EofArrives
  \/ CloseEvent
  \/ ThenCallback
  \/ CloseFlush
  \/ QueueRow
  \/ CloseRow

SpecLines == LinesInit /\ [][LinesNext]_vars

----------------------------------------------------------------------------
(* Properties of the pump.                                                  *)

\* C1: during alternate-name ingestion at most one processBatch is running,
\* the final flush of the close handler included.
C1_OneBatchInFlight == InFlight <= 1

\* C2: while a batch is being applied, before the input has closed, the line
\* source is suspended: no resume happens while a batch is in flight.
C2_SuspendedWhileInFlight == (InFlight > 0 /\ ~closed) => paused

\* The lines read and not yet applied: lineQueue and the current batch.
Unapplied == Len(lineQueue) + Len(batch)

----------------------------------------------------------------------------
(* SpecRuns: runs of main (lines 710-738) against one database.  A step is  *)
(* one awaited query, one 'data' event of the places file, or the           *)
(* completion of one INSERT INTO cities, which the 'data' handler of        *)
(* loadCitiesData issues and nothing awaits before 'end' resolves the load  *)
(* (lines 469-498).  The pool sends the queries of a run in the order they  *)
(* were issued, on up to ten connections, so the INSERTs of a dump of fewer *)
(* than ten rows can complete in any order and after later queries of the   *)
(* run; pool.end() (line 736) waits for all of them.  The rows              *)
(* loadAlternateNames keeps are applied in file order; its pump is the      *)
(* subject of SpecAlt.                                                      *)

Alive(r) == pc[r] \notin {"idle", "done", "failed"}

\* main starts (line 710); createTables changes no row.  Run 2 is the later
\* one to start.
Start(r) ==
  /\ pc[r] = "idle"
  /\ r = 2 => pc[1] # "idle"
  /\ pc' = [pc EXCEPT ![r] = "countries"]
  /\ overlapped' = (overlapped \/ (r = 2 /\ Alive(1)))
  /\ UNCHANGED <<ci, cityPos, pendingCity, altPos, altPhase, files, cityCountAtStart,
                 altCountAtStart, cityWork, altWork, ignored, raced, snap1,
                 dbVars, altVars, searchVars, env>>

\* One turn of the loop of loadCountriesData (lines 415-426).
SeedCountry(r) ==
  /\ pc[r] = "countries"
  /\ LET c == CountrySeed[ci[r] + 1] IN
     countries' = Upsert(countries, c.code, CountryRecord(c))
  /\ ci' = [ci EXCEPT ![r] = @ + 1]
  /\ pc' = [pc EXCEPT ![r] = IF ci[r] + 1 = Len(CountrySeed) THEN "citiesProbe" ELSE @]
  /\ UNCHANGED <<cities, alternate_names, cityPos, pendingCity, altPos, altPhase, files,
                 cityCountAtStart, altCountAtStart, cityWork, altWork, ignored, raced,
                 overlapped, snap1, altVars, searchVars, env>>

\* A test that takes a table of one row for an empty one.
moreThanOneRow(tbl) == Cardinality(DOMAIN tbl) > 1

\* The test of lines 435 and 507 on the COUNT(*) of a table.
alreadyLoaded(tbl) == Cardinality(DOMAIN tbl) > 0

\* loadCitiesData up to its return at line 437 or to line 440.
CitiesProbe(r) ==
  /\ pc[r] = "citiesProbe"
  /\ cityCountAtStart' = [cityCountAtStart EXCEPT ![r] = Cardinality(DOMAIN cities)]
  /\ pc' = [pc EXCEPT ![r] = IF alreadyLoaded(cities) THEN "altProbe" ELSE "citiesFetch"]
  /\ UNCHANGED <<ci, cityPos, pendingCity, altPos, altPhase, files, altCountAtStart,
                 cityWork, altWork, ignored, raced, overlapped, snap1,
                 dbVars, altVars, searchVars, env>>

\* A failure of the fetch that is logged and goes on to the next stage.
LogAndGoOn(r) ==
  /\ pc' = [pc EXCEPT ![r] = "optimize"]
  /\ UNCHANGED pendingCity

\* process.exit(1) in the catch of main (line 734): the INSERTs of the run
\* that are not done are lost.
Exit(r) ==
  /\ pc' = [pc EXCEPT ![r] = "failed"]
  /\ pendingCity' = [pendingCity EXCEPT ![r] = {}]

\* Lines 448-452: the file is there, or it is downloaded and extracted
\* (ok), or the download fails and main exits.
CitiesFetch(r, ok) ==
  /\ pc[r] = "citiesFetch"
  /\ IF "cities" \in files
     THEN /\ ok
          /\ pc' = [pc EXCEPT ![r] = "citiesParse"]
          /\ UNCHANGED <<files, cityWork, pendingCity>>
     ELSE /\ cityWork' = [cityWork EXCEPT ![r] = @ + 1]
          /\ IF ok
             THEN /\ files' = files \cup {"cities"}
                  /\ pc' = [pc EXCEPT ![r] = "citiesParse"]
                  /\ UNCHANGED pendingCity
             ELSE /\ Exit(r)
                  /\ UNCHANGED files
  /\ UNCHANGED <<ci, cityPos, altPos, altPhase, cityCountAtStart, altCountAtStart,
                 altWork, ignored, raced, overlapped, snap1, dbVars, altVars, searchVars, env>>

\* The 'data' handler (lines 469-494) up to its await: the INSERT of the
\* next row is issued.
CityData(r) ==
  /\ pc[r] = "citiesParse"
  /\ cityPos[r] < Len(PlacesDump)
  /\ cityPos' = [cityPos EXCEPT ![r] = @ + 1]
  /\ pendingCity' = [pendingCity EXCEPT ![r] = @ \cup {cityPos[r] + 1}]
  /\ cityWork' = [cityWork EXCEPT ![r] = @ + 1]
  /\ UNCHANGED <<pc, ci, altPos, altPhase, files, cityCountAtStart, altCountAtStart,
                 altWork, ignored, raced, overlapped, snap1, dbVars, altVars, searchVars, env>>

\* The 'end' handler (lines 495-498) resolves loadCitiesData.
CityEnd(r) ==
  /\ pc[r] = "citiesParse"
  /\ cityPos[r] = Len(PlacesDump)
  /\ pc' = [pc EXCEPT ![r] = "altProbe"]
  /\ UNCHANGED <<ci, cityPos, pendingCity, altPos, altPhase, files, cityCountAtStart,
                 altCountAtStart, cityWork, altWork, ignored, raced, overlapped, snap1,
                 dbVars, altVars, searchVars, env>>

\* The ids an INSERT found stored already.
Met(tbl, name, id) == IF id # NaN /\ id.v \in DOMAIN tbl THEN {<<name, id.v>>} ELSE {}

\* The INSERT of row i of run r completes (lines 471-494).
CityInsertDone(r, i) ==
  /\ Alive(r)
  /\ i \in pendingCity[r]
  /\ cities' = insertCity(cities, PlacesDump[i])
  /\ ignored' = ignored \cup (IF cityInsertFails(PlacesDump[i]) THEN {}
                              ELSE Met(cities, "cities", parseInt(PlacesDump[i].geonameid)))
  /\ pendingCity' = [pendingCity EXCEPT ![r] = @ \ {i}]
  /\ UNCHANGED <<countries, alternate_names, pc, ci, cityPos, altPos, altPhase, files,
                 cityCountAtStart, altCountAtStart, cityWork, altWork, raced,
                 overlapped, snap1, altVars, searchVars, env>>

\* loadAlternateNames up to its return at line 509 or to line 512.
AltProbe(r) ==
  /\ pc[r] = "altProbe"
  /\ altCountAtStart' = [altCountAtStart EXCEPT ![r] = Cardinality(DOMAIN alternate_names)]
  /\ pc' = [pc EXCEPT ![r] = IF alreadyLoaded(alternate_names) THEN "optimize"
                             ELSE "altFetch"]
  /\ UNCHANGED <<ci, cityPos, pendingCity, altPos, altPhase, files, cityCountAtStart,
                 cityWork, altWork, ignored, raced, overlapped, snap1,
                 dbVars, altVars, searchVars, env>>

\* The stage after altPos rows of the file have been applied.
AltStage(n) == IF n >= Len(AltRows) THEN "optimize" ELSE "altParse"

\* Lines 516-520, as CitiesFetch.
AltFetch(r, ok) ==
  /\ pc[r] = "altFetch"
  /\ IF "alt" \in files
     THEN /\ ok
          /\ pc' = [pc EXCEPT ![r] = AltStage(0)]
          /\ UNCHANGED <<files, altWork, pendingCity>>
     ELSE /\ altWork' = [altWork EXCEPT ![r] = @ + 1]
          /\ IF ok
             THEN /\ files' = files \cup {"alt"}
                  /\ pc' = [pc EXCEPT ![r] = AltStage(0)]
                  /\ UNCHANGED pendingCity
             ELSE /\ Exit(r)
                  /\ UNCHANGED files
  /\ UNCHANGED <<ci, cityPos, altPos, altPhase, cityCountAtStart, altCountAtStart,
                 cityWork, ignored, raced, overlapped, snap1, dbVars, altVars, searchVars, env>>

\* Some run has issued, and not completed, an INSERT that stores place id.
PendingPlace(id) ==
  \E r \in Runs : \E i \in pendingCity[r] :
     ~cityInsertFails(PlacesDump[i]) /\ parseInt(PlacesDump[i].geonameid) = id

\* processRow (lines 536-566) up to the end of its SELECT (lines 539-542).
AltCheck(r) ==
  /\ pc[r] = "altParse"
  /\ altPhase[r] = "check"
  /\ altWork' = [altWork EXCEPT ![r] = @ + 1]
  /\ LET row == AltRows[altPos[r] + 1] IN
     /\ raced' = (raced \/ (~cityExists(cities, row) /\ PendingPlace(parseInt(row.geonameid))))
     /\ IF cityExists(cities, row)
        THEN /\ altPhase' = [altPhase EXCEPT ![r] = "insert"]
             /\ UNCHANGED <<pc, altPos>>
        ELSE /\ altPos' = [altPos EXCEPT ![r] = @ + 1]
             /\ pc' = [pc EXCEPT ![r] = AltStage(altPos[r] + 1)]
             /\ UNCHANGED altPhase
  /\ UNCHANGED <<ci, cityPos, pendingCity, files, cityCountAtStart, altCountAtStart,
                 cityWork, ignored, overlapped, snap1, dbVars, altVars, searchVars, env>>

\* processRow from its INSERT (lines 545-558) to its return.
AltInsert(r) ==
  /\ pc[r] = "altParse"
  /\ altPhase[r] = "insert"
  /\ altWork' = [altWork EXCEPT ![r] = @ + 1]
  /\ LET row == AltRows[altPos[r] + 1] IN
     /\ alternate_names' = insertAlternateName(alternate_names, row)
     /\ ignored' = ignored \cup Met(alternate_names, "alternate_names",
                                    parseInt(row.alternatenameid))
  /\ altPhase' = [altPhase EXCEPT ![r] = "check"]
  /\ altPos' = [altPos EXCEPT ![r] = @ + 1]
  /\ pc' = [pc EXCEPT ![r] = AltStage(altPos[r] + 1)]
  /\ UNCHANGED <<countries, cities, ci, cityPos, pendingCity, files, cityCountAtStart,
                 altCountAtStart, cityWork, raced, overlapped, snap1, altVars, searchVars, env>>

\* The run ends with process.exit where main has pool.end(): the INSERTs that
\* are not done are lost.
FinishWithExit(r) ==
  /\ pc[r] = "optimize"
  /\ pc' = [pc EXCEPT ![r] = "done"]
  /\ pendingCity' = [pendingCity EXCEPT ![r] = {}]
  /\ snap1' = IF r = 1 THEN <<countries, cities, alternate_names>> ELSE snap1
  /\ UNCHANGED <<ci, cityPos, altPos, altPhase, files, cityCountAtStart,
                 altCountAtStart, cityWork, altWork, ignored, raced, overlapped,
                 dbVars, altVars, searchVars, env>>

\* optimizeDatabase, the statistics and pool.end() (lines 700-708, 720-736):
\* the run ends when its queries are done.
Finish(r) ==
  /\ pc[r] = "optimize"
  /\ pendingCity[r] = {}
  /\ pc' = [pc EXCEPT ![r] = "done"]
  /\ snap1' = IF r = 1 THEN <<countries, cities, alternate_names>> ELSE snap1
  /\ UNCHANGED <<ci, cityPos, pendingCity, altPos, altPhase, files, cityCountAtStart,
                 altCountAtStart, cityWork, altWork, ignored, raced, overlapped,
                 dbVars, altVars, searchVars, env>>

RunsInit ==
  /\ PumpInit(0, 0)
  /\ countries \in {EmptyTable, StaleCountries}
  /\ cities = EmptyTable
  /\ alternate_names = EmptyTable
  /\ RunsIdle
  /\ SearchIdle

RunsNext ==
  \E r \in Runs :
    \/ Start(r)
    \/ SeedCountry(r)
    \/ CitiesProbe(r)
    \/ \E ok \in BOOLEAN : CitiesFetch(r, ok)
    \/ CityData(r)
    \/ CityEnd(r)
    \/ \E i \in 1..Len(PlacesDump) : CityInsertDone(r, i)
    \/ AltProbe(r)
    \/ \E ok \in BOOLEAN : AltFetch(r, ok)
    \/ AltCheck(r)
    \/ AltInsert(r)
    \/ Finish(r)

SpecRuns == RunsInit /\ [][RunsNext]_vars

----------------------------------------------------------------------------
(* SpecIngest: two runs of main, one after the other has ended, with the    *)
(* fetch of each dump in its steps (downloadFile, extractZip) and with rows *)
(* that fail.  Here files gives, for each dump, the number of rows of its   *)
(* extracted file in /app/data, or -1 when the file is not there; cityWork  *)
(* and altWork are the logs of what each run did for the places and for the *)
(* alternate names.  A row is read and applied in one step: the order in    *)
(* which the event loop applies rows is the subject of SpecAlt and SpecRuns.*)

\* The places dump: a place, a row whose id is no number, a row whose
\* latitude is no number, and a place without population, elevation and date.
IngestPlaces ==
  << PlaceRow(<<"1">>, <<"P","a">>, <<"I","N">>, <<"1","0">>, <<"2","0">>),
     PlaceRow(<<"x">>, <<"P","b">>, <<"I","N">>, <<"1","1">>, <<"2","1">>),
     PlaceRow(<<"3">>, <<"P","c">>, <<"I","E">>, <<"a","b","c">>, <<"-","8">>),
     [PlaceRow(<<"4">>, <<"P","d">>, <<"I","E">>, <<"5","3">>, <<"-","8">>)
        EXCEPT !.population = <<>>] >>

\* The alternate-names dump: a name of place 1, a name of a place that is
\* not in the places dump, a line of three columns, a row whose id is no
\* number, and a name of place 4.
IngestAlt ==
  << AltLine(<<"1">>, <<"1">>, <<"e","n">>, <<"N","a">>),
     AltLine(<<"2">>, <<"7">>, <<"e","n">>, <<"N","x">>),
     <<(<<"3">>), (<<"1">>), (<<"e","n">>)>>,
     AltLine(<<"x">>, <<"1">>, <<"f","r">>, <<"N","b">>),
     AltLine(<<"5">>, <<"4">>, <<"e","n">>, <<"N","c">>) >>

DumpRows(d) == IF d = "cities" THEN Len(IngestPlaces) ELSE Len(IngestAlt)

\* What a run did for dump d so far, with one more event.
Logged(r, d, e) ==
  /\ cityWork' = IF d = "cities" THEN [cityWork EXCEPT ![r] = Append(@, e)] ELSE cityWork
  /\ altWork' = IF d = "alt" THEN [altWork EXCEPT ![r] = Append(@, e)] ELSE altWork

\* main starts when no other run is alive, and creates the tables (lines
\* 711-715).
IngestStart(r) ==
  /\ pc[r] = "idle"
  /\ r = 2 => pc[1] \in {"done", "failed"}
  /\ pc' = [pc EXCEPT ![r] = "countries"]
  /\ UNCHANGED <<dbVars, ci, cityPos, pendingCity, altPos, altPhase, files,
                 env, cityCountAtStart, altCountAtStart, cityWork, altWork, ignored,
                 raced, overlapped, snap1, altVars, searchVars>>

\* fs.existsSync(txtFile) is true (lines 448 and 516): the file is parsed.
Cached(r, d) ==
  /\ pc[r] = d \o "Fetch"
  /\ files[d] # -1
  /\ pc' = [pc EXCEPT ![r] = d \o "Parse"]
  /\ UNCHANGED <<dbVars, ci, cityPos, pendingCity, altPos, altPhase, files, env,
                 cityCountAtStart, altCountAtStart, cityWork, altWork, ignored,
                 raced, overlapped, snap1, altVars, searchVars>>

\* downloadFile (lines 96-115) when the file is not there: the archive is
\* written ("ok"), the answer is not 200 ("status"), or the request fails
\* ("network"); a rejection ends main at line 734.
Download(r, d, outcome) ==
  /\ pc[r] = d \o "Fetch"
  /\ files[d] = -1
  /\ Logged(r, d, <<"download", outcome>>)
  /\ IF outcome = "ok"
     THEN pc' = [pc EXCEPT ![r] = d \o "Extract"] /\ UNCHANGED pendingCity
     ELSE Exit(r)
  /\ UNCHANGED <<dbVars, ci, cityPos, altPos, altPhase, files, env, cityCountAtStart,
                 altCountAtStart, ignored, raced, overlapped, snap1, altVars, searchVars>>

\* extractZip (lines 117-147): the file is written whole ("ok"), the archive
\* cannot be opened ("open"), or the extraction ends while the file is being
\* written ("stream"), which leaves n of its rows; a failure ends the process
\* with a rejection (line 734) or an uncaught error.
Extract(r, d, outcome, n) ==
  /\ pc[r] = d \o "Extract"
  /\ Logged(r, d, <<"extract", outcome>>)
  /\ IF outcome = "ok"
     THEN /\ files' = [files EXCEPT ![d] = DumpRows(d)]
          /\ pc' = [pc EXCEPT ![r] = d \o "Parse"]
          /\ UNCHANGED pendingCity
     ELSE /\ files' = IF outcome = "stream" THEN [files EXCEPT ![d] = n] ELSE files
          /\ Exit(r)
  /\ UNCHANGED <<dbVars, ci, cityPos, altPos, altPhase, env, cityCountAtStart,
                 altCountAtStart, ignored, raced, overlapped, snap1, altVars, searchVars>>

\* A 'data' handler that ends the run when its INSERT fails.
ParseCityFatal(r, ok) ==
  /\ pc[r] = "citiesParse"
  /\ cityPos[r] < files["cities"]
  /\ LET row == IngestPlaces[cityPos[r] + 1] IN
     /\ cities' = IF ok THEN insertCity(cities, row) ELSE cities
     /\ IF ok /\ ~cityInsertFails(row)
        THEN pc' = pc /\ UNCHANGED pendingCity
        ELSE Exit(r)
  /\ cityPos' = [cityPos EXCEPT ![r] = @ + 1]
  /\ Logged(r, "cities", <<"row", cityPos[r] + 1, ok>>)
  /\ UNCHANGED <<countries, alternate_names, ci, altPos, altPhase, files, env,
                 cityCountAtStart, altCountAtStart, ignored, raced, overlapped, snap1,
                 altVars, searchVars>>

\* The 'data' handler (lines 469-494) for the next row of the file, with its
\* INSERT: the store takes the statement (ok) or throws, and the catch of
\* line 491 goes on.
ParseCity(r, ok) ==
  /\ pc[r] = "citiesParse"
  /\ cityPos[r] < files["cities"]
  /\ cities' = IF ok THEN insertCity(cities, IngestPlaces[cityPos[r] + 1]) ELSE cities
  /\ cityPos' = [cityPos EXCEPT ![r] = @ + 1]
  /\ Logged(r, "cities", <<"row", cityPos[r] + 1, ok>>)
  /\ UNCHANGED <<countries, alternate_names, pc, ci, pendingCity, altPos, altPhase, files,
                 env, cityCountAtStart, altCountAtStart, ignored, raced, overlapped, snap1,
                 altVars, searchVars>>

\* The 'end' handler (lines 495-498) after the last row of the file.
ParseCitiesEnd(r) ==
  /\ pc[r] = "citiesParse"
  /\ cityPos[r] = files["cities"]
  /\ pc' = [pc EXCEPT ![r] = "altProbe"]
  /\ UNCHANGED <<dbVars, ci, cityPos, pendingCity, altPos, altPhase, files, env,
                 cityCountAtStart, altCountAtStart, cityWork, altWork, ignored,
                 raced, overlapped, snap1, altVars, searchVars>>

\* processLine and, for a row it keeps, processRow (lines 604-641, 536-566)
\* for the next line of the file: the store answers (ok) or throws, and the
\* catch of line 562 goes on.  The event tells whether the line was kept and
\* whether processRow found its place.
ParseAltLine(r, ok) ==
  /\ pc[r] = "altParse"
  /\ altPos[r] < files["alt"]
  /\ LET rows == processLine(IngestAlt[altPos[r] + 1], <<>>) IN
     /\ rows = <<>> => ok
     /\ alternate_names' = IF rows # <<>> /\ ok
                           THEN processRowTable(cities, alternate_names, rows[1])
                           ELSE alternate_names
     /\ Logged(r, "alt", <<"line", altPos[r] + 1, rows # <<>>, ok,
                           rows # <<>> /\ cityExists(cities, rows[1])>>)
  /\ altPos' = [altPos EXCEPT ![r] = @ + 1]
  /\ UNCHANGED <<countries, cities, pc, ci, cityPos, pendingCity, altPhase, files, env,
                 cityCountAtStart, altCountAtStart, ignored, raced, overlapped, snap1,
                 altVars, searchVars>>

\* The close handler (lines 682-694) after the last line of the file.
ParseAltEnd(r) ==
  /\ pc[r] = "altParse"
  /\ altPos[r] = files["alt"]
  /\ pc' = [pc EXCEPT ![r] = "optimize"]
  /\ UNCHANGED <<dbVars, ci, cityPos, pendingCity, altPos, altPhase, files, env,
                 cityCountAtStart, altCountAtStart, cityWork, altWork, ignored,
                 raced, overlapped, snap1, altVars, searchVars>>

IngestInit ==
  /\ PumpInit(0, 0)
  /\ countries \in {EmptyTable, StaleCountries}
  /\ cities = EmptyTable
  /\ alternate_names = EmptyTable
  /\ pc = [r \in Runs |-> "idle"]
  /\ ci = [r \in Runs |-> 0]
  /\ cityPos = [r \in Runs |-> 0]
  /\ pendingCity = [r \in Runs |-> {}]
  /\ altPos = [r \in Runs |-> 0]
  /\ altPhase = [r \in Runs |-> "check"]
  /\ files = [d \in {"cities", "alt"} |-> -1]
  /\ env = Absent
  /\ cityCountAtStart = [r \in Runs |-> 0]
  /\ altCountAtStart = [r \in Runs |-> 0]
  /\ cityWork = [r \in Runs |-> <<>>]
  /\ altWork = [r \in Runs |-> <<>>]
  /\ ignored = {}
  /\ raced = FALSE
  /\ overlapped = FALSE
  /\ snap1 = <<EmptyTable, EmptyTable, EmptyTable>>
  /\ SearchIdle

IngestNext ==
  \E r \in Runs :
    \/ IngestStart(r)
    \/ SeedCountry(r)
    \/ CitiesProbe(r)
    \/ AltProbe(r)
    \/ \E d \in {"cities", "alt"} : Cached(r, d)
    \/ \E d \in {"cities", "alt"}, outcome \in {"ok", "status", "network"} :
          Download(r, d, outcome)
    \/ \E d \in {"cities", "alt"}, outcome \in {"ok", "open"} : Extract(r, d, outcome, 0)
    \/ \E d \in {"cities", "alt"} : \E n \in 1..(DumpRows(d) - 1) : Extract(r, d, "stream", n)
    \/ \E ok \in BOOLEAN : ParseCity(r, ok)
    \/ ParseCitiesEnd(r)
    \/ \E ok \in BOOLEAN : ParseAltLine(r, ok)
    \/ ParseAltEnd(r)
    \/ Finish(r)

SpecIngest == IngestInit /\ [][IngestNext]_vars

----------------------------------------------------------------------------
(* Properties of the runs.                                                  *)

\* C4: every stored AlternateName has the geonameid of a stored Place.
C4_AltNamesReferencePlaces ==
  \A a \in DOMAIN alternate_names : alternate_names[a].geonameid \in DOMAIN cities

\* C4 witness: a run has gone past the line that names a place the dump does
\* not have, and alternate names are stored.
C4_Witness ==
  /\ \E r \in Runs : altPos[r] >= 2
  /\ alternate_names # EmptyTable

\* C5: a load that finds its collection non-empty downloads nothing, parses
\* nothing and issues no query for it, also when the collection holds a part
\* of the dump only.
C5_ProbeShortCircuits ==
  \A r \in Runs :
    /\ cityCountAtStart[r] > 0 => cityWork[r] = 0
    /\ altCountAtStart[r] > 0 => altWork[r] = 0

\* The ids a complete run stores.
ExpectedCityIds ==
  {parseInt(PlacesDump[i].geonameid).v :
     i \in {j \in 1..Len(PlacesDump) : ~cityInsertFails(PlacesDump[j])}}

ExpectedAltIds ==
  {parseInt(AltRows[i].alternatenameid).v :
     i \in {j \in 1..Len(AltRows) :
              /\ parseInt(AltRows[j].alternatenameid) # NaN
              /\ parseInt(AltRows[j].geonameid) # NaN
              /\ parseInt(AltRows[j].geonameid).v \in ExpectedCityIds}}

\* C5 witness: a run that found a part of the places, left by a run that
\* exited, has ended.
C5_Witness ==
  \E r \in Runs :
    /\ pc[r] = "done"
    /\ cityCountAtStart[r] > 0
    /\ cityCountAtStart[r] < Cardinality(ExpectedCityIds)
    /\ cityWork[r] = 0

\* C6: two runs in sequence leave the three collections as the first run
\* left them.
C6_TwiceAsOnce ==
  (pc[1] = "done" /\ pc[2] = "done" /\ ~overlapped)
     => <<countries, cities, alternate_names>> = snap1

\* C7 as stated: two overlapping runs on an empty store end with the content
\* of a complete run (also in the runs where no existence check missed a
\* pending place).
C7_SameAsSingleRun ==
  (pc[1] = "done" /\ pc[2] = "done" /\ overlapped /\ ~raced)
     => /\ DOMAIN cities = ExpectedCityIds
        /\ DOMAIN alternate_names = ExpectedAltIds

\* Row `rec` under `id` is what some line of the dump stores.
FromAltDump(id, rec) ==
  \E i \in 1..Len(AltRows) :
     /\ parseInt(AltRows[i].alternatenameid) = Num(id)
     /\ parseInt(AltRows[i].geonameid) # NaN
     /\ rec = AltRecord(AltRows[i])

\* C7, amended: two overlapping runs on an empty store end with every place
\* of the dump stored and with alternate names a complete run can store,
\* each under one id and naming a stored place; alternate names of the
\* complete content may be missing.
C7_SubsetOfSingleRun ==
  (pc[1] = "done" /\ pc[2] = "done" /\ overlapped)
     => /\ DOMAIN cities = ExpectedCityIds
        /\ DOMAIN alternate_names \subseteq ExpectedAltIds
        /\ \A a \in DOMAIN alternate_names :
              /\ FromAltDump(a, alternate_names[a])
              /\ alternate_names[a].geonameid \in DOMAIN cities

\* C7 witness: two overlapping runs have ended and an alternate name of the
\* complete content is missing.
C7_Witness ==
  /\ pc[1] = "done" /\ pc[2] = "done" /\ overlapped /\ ~raced
  /\ DOMAIN cities = ExpectedCityIds
  /\ DOMAIN alternate_names # ExpectedAltIds

\* C8: a stored Place or AlternateName keeps its id and all its fields in
\* every step, and an INSERT that meets a stored id changes no row.
C8_StoredRowsImmutable ==
  [][ /\ \A id \in DOMAIN cities : id \in DOMAIN cities' /\ cities'[id] = cities[id]
      /\ \A id \in DOMAIN alternate_names :
            id \in DOMAIN alternate_names' /\ alternate_names'[id] = alternate_names[id]
      /\ ignored' # ignored => UNCHANGED <<cities, alternate_names>> ]_vars

\* C8 witness: an INSERT INTO cities and an INSERT INTO alternate_names have
\* each met a stored id.
C8_Witness ==
  /\ \E id \in DOMAIN cities : <<"cities", id>> \in ignored
  /\ \E id \in DOMAIN alternate_names : <<"alternate_names", id>> \in ignored

\* A run has upserted the whole list.
Seeded(r) == ci[r] = Len(CountrySeed)

\* C9: once a run has seeded, every row of the list is stored as the list has
\* it, whatever was stored before; a seeding step after that changes no
\* country; every stored code is two upper-case letters; and no seeding step
\* changes a Place or an AlternateName.
C9_SeedingIdempotent ==
  /\ []((\E r \in Runs : Seeded(r)) =>
          \A i \in 1..Len(CountrySeed) :
             /\ CountrySeed[i].code \in DOMAIN countries
             /\ countries[CountrySeed[i].code] = CountryRecord(CountrySeed[i]))
  /\ [](\A code \in DOMAIN countries :
          Len(code) = 2 /\ \A j \in 1..2 : code[j] \in UpperCaseLetters)
  /\ [][ci' # ci =>
          /\ UNCHANGED <<cities, alternate_names>>
          /\ (\E r \in Runs : Seeded(r)) => countries' = countries]_vars

\* C9 witness: both runs have seeded a table that held other rows, with
\* places stored.
C9_Witness ==
  /\ \A r \in Runs : Seeded(r)
  /\ <<"Z","Z">> \in DOMAIN countries
  /\ cities # EmptyTable

----------------------------------------------------------------------------
(* SpecSearch: GET /search (server.js, lines 26-38 and 48-216) against a    *)
(* store the loader has filled.  A request is answered in two steps: the    *)
(* handler up to its await of pool.query, and the rest of it when the query *)
(* has returned its rows or failed.                                         *)

\* A rational number, for similarities and scores.
Rat(n, d) == [num |-> n, den |-> d]
RatLess(x, y) == x.num * y.den < y.num * x.den
RatEq(x, y) == x.num * y.den = y.num * x.den
GREATEST(x, y) == IF RatLess(x, y) THEN y ELSE x

\* LOWER of PostgreSQL on the letters A-Z, a-z.
LOWER(s) == toLowerCase(s)

\* s LIKE p: % matches any run of characters, _ any one character, and a
\* backslash makes the character after it literal.
RECURSIVE Like(_, _)
Like(s, p) ==
  IF p = <<>> THEN s = <<>>
  ELSE IF Head(p) = "%" THEN Like(s, Tail(p)) \/ (s # <<>> /\ Like(Tail(s), p))
  ELSE IF Head(p) = "_" THEN s # <<>> /\ Like(Tail(s), Tail(p))
  ELSE IF Head(p) = "\\" /\ Len(p) >= 2
       THEN s # <<>> /\ Head(s) = p[2] /\ Like(Tail(s), Tail(Tail(p)))
  ELSE s # <<>> /\ Head(s) = Head(p) /\ Like(Tail(s), Tail(p))

\* s ILIKE p.
ILIKE(s, p) == Like(LOWER(s), LOWER(p))

\* pg_trgm: the words of a string are its runs of letters and digits, in
\* lower case; a word is padded with two blanks before it and one after it;
\* its trigrams are the three-character pieces of the padded word.
IsWordChar(c) == IsIn(c, LowerCaseSeq) \/ IsIn(c, UpperCaseSeq) \/ DigitValue(c) >= 0

RECURSIVE WordsOf(_, _)
WordsOf(s, cur) ==
  IF s = <<>> THEN (IF cur = <<>> THEN {} ELSE {cur})
  ELSE IF IsWordChar(Head(s)) THEN WordsOf(Tail(s), Append(cur, LowerOf(Head(s))))
  ELSE (IF cur = <<>> THEN {} ELSE {cur}) \cup WordsOf(Tail(s), <<>>)

Padded(w) == <<" ", " ">> \o w \o <<" ">>
TrigramsOfWord(w) == {SubSeq(Padded(w), i, i + 2) : i \in 1..(Len(w) + 1)}
Trigrams(s) == UNION {TrigramsOfWord(w) : w \in WordsOf(s, <<>>)}

\* similarity(a, b) of pg_trgm: shared trigrams over all trigrams.
similarity(a, b) ==
  LET ta == Trigrams(a)
      tb == Trigrams(b)
  IN IF ta = {} \/ tb = {} THEN Rat(0, 1)
     ELSE Rat(Cardinality(ta \cap tb), Cardinality(ta \cup tb))

\* a % b: the similarity reaches pg_trgm.similarity_threshold, 0.3.
SimilarTo(a, b) == ~RatLess(similarity(a, b), Rat(3, 10))

\* The largest of a set of rationals, 0 for the empty set (COALESCE(MAX, 0)).
RECURSIVE MaxOf(_)
MaxOf(S) ==
  IF S = {} THEN Rat(0, 1)
  ELSE LET x == CHOOSE y \in S : TRUE IN GREATEST(x, MaxOf(S \ {x}))

\* $2 of the query (line 160).
Pattern(q) == <<"%">> \o q \o <<"%">>

\* The alternate_names rows the LEFT JOIN of line 104 pairs with a city.
JoinedAlts(id) == {a \in DOMAIN alternate_names : alternate_names[a].geonameid = id}

\* The WHERE of lines 105-112 on one joined row: the city's part and the
\* alternate name's part.
cityWhere(c, q) ==
  \/ ILIKE(c.name, Pattern(q)) \/ ILIKE(c.ascii_name, Pattern(q))
  \/ SimilarTo(c.name, q) \/ SimilarTo(c.ascii_name, q)

altWhere(name, q) == ILIKE(name, Pattern(q)) \/ SimilarTo(name, q)

\* The joined rows of a city that pass the WHERE.
KeptAlts(id, q) ==
  {a \in JoinedAlts(id) :
     cityWhere(cities[id], q) \/ altWhere(alternate_names[a].alternate_name, q)}

\* The city has a group in the result of lines 102-115: its country is
\* stored (JOIN of line 103) and one of its joined rows passes the WHERE.
cityCandidate(id, q) ==
  /\ cities[id].country_code \in DOMAIN countries
  /\ cityWhere(cities[id], q) \/ KeptAlts(id, q) # {}

\* The CASE of lines 81-93.  Its EXISTS subqueries read all alternate names
\* of the city; its MAX reads the joined rows that passed the WHERE.
cityScore(id, q) ==
  LET c == cities[id]
      names == {alternate_names[a].alternate_name : a \in JoinedAlts(id)}
  IN IF LOWER(c.name) = LOWER(q) THEN Rat(100, 1)
     ELSE IF LOWER(c.ascii_name) = LOWER(q) THEN Rat(95, 1)
     ELSE IF \E n \in names : LOWER(n) = LOWER(q) THEN Rat(90, 1)
     ELSE IF ILIKE(c.name, Pattern(q)) THEN Rat(80, 1)
     ELSE IF ILIKE(c.ascii_name, Pattern(q)) THEN Rat(75, 1)
     ELSE IF \E n \in names : ILIKE(n, Pattern(q)) THEN Rat(70, 1)
     ELSE LET g == GREATEST(GREATEST(similarity(c.name, q), similarity(c.ascii_name, q)),
                            MaxOf({similarity(alternate_names[a].alternate_name, q) :
                                     a \in KeptAlts(id, q)}))
          IN Rat(10 * g.num, g.den)

\* country_alternate_names: createTables makes the table (lines 72-77) and
\* nothing fills it.  A row is <<country_code, name>>.
country_alternate_names == {}

countryAltNames(code) == {r[2] : r \in {x \in country_alternate_names : x[1] = code}}

\* The WHERE of lines 148-153 and the CASE of lines 134-143.
countryCandidate(code, q) ==
  \/ ILIKE(countries[code].name, Pattern(q)) \/ SimilarTo(countries[code].name, q)
  \/ \E n \in countryAltNames(code) : altWhere(n, q)

countryScore(code, q) ==
  LET co == countries[code]
      names == countryAltNames(code)
  IN IF LOWER(co.name) = LOWER(q) THEN Rat(100, 1)
     ELSE IF ILIKE(co.name, Pattern(q)) THEN Rat(80, 1)
     ELSE IF \E n \in names : LOWER(n) = LOWER(q) THEN Rat(90, 1)
     ELSE IF \E n \in names : ILIKE(n, Pattern(q)) THEN Rat(70, 1)
     ELSE LET kept == {n \in names : countryCandidate(code, q) /\
                                      (ILIKE(co.name, Pattern(q)) \/ SimilarTo(co.name, q)
                                       \/ altWhere(n, q))}
              g == GREATEST(similarity(co.name, q), MaxOf({similarity(n, q) : n \in kept}))
          IN Rat(10 * g.num, g.den)

\* The rows of search_results (lines 65-156), with the columns the handler
\* reads and the score.
\* The key of the injected translation.
En == <<"e","n">>

\* json_object_agg of lines 95-101 over the joined rows of a city that passed
\* the WHERE, as the handler receives it: one entry for each language; of
\* several names in a language the one the aggregate met last stays.
Aggregate(id, q) ==
  LET kept == KeptAlts(id, q)
      langs == {alternate_names[a].isolanguage : a \in kept}
      names == {alternate_names[a].alternate_name : a \in kept}
  IN {m \in [langs -> names] :
        \A l \in langs : \E a \in kept : /\ alternate_names[a].isolanguage = l
                                          /\ alternate_names[a].alternate_name = m[l]}

\* The cities of the result, and the aggregates the store may return for them.
CandidateCities(q) == {i \in DOMAIN cities : cityCandidate(i, q)}

Aggregates(q) ==
  {f \in [CandidateCities(q) -> UNION {Aggregate(i, q) : i \in CandidateCities(q)}] :
     \A i \in CandidateCities(q) : f[i] \in Aggregate(i, q)}

cityRow(id, q, agg) ==
  [type |-> "city", geonameid |-> id, name |-> cities[id].name,
   country_code |-> cities[id].country_code,
   country_name |-> countries[cities[id].country_code].name,
   country_translations |-> countries[cities[id].country_code].name_translations,
   admin_region |-> cities[id].admin1_name,
   score |-> cityScore(id, q),
   name_translations_agg |-> agg[id]]

countryRow(code, q) ==
  [type |-> "country", geonameid |-> 0, name |-> countries[code].name,
   country_code |-> code, country_name |-> countries[code].name,
   country_translations |-> countries[code].name_translations,
   admin_region |-> Null,
   score |-> countryScore(code, q),
   name_translations_agg |-> countries[code].name_translations]

search_results(q, agg) ==
  {cityRow(id, q, agg) : id \in CandidateCities(q)}
    \cup {countryRow(code, q) : code \in {k \in DOMAIN countries : countryCandidate(k, q)}}

\* The filters with the country compared as it was given.
FilteredAsGiven(r, agg) ==
  {row \in search_results(r.q, agg) :
     /\ r.country # Absent /\ r.country # <<>> => row.country_code = r.country
     /\ r.type \in {<<"c","i","t","y">>, <<"c","o","u","n","t","r","y">>}
          => row.type = (IF r.type = <<"c","i","t","y">> THEN "city" ELSE "country")}

\* The filters the handler appends (lines 162-171).
Filtered(r, agg) ==
  {row \in search_results(r.q, agg) :
     /\ r.country # Absent /\ r.country # <<>> => row.country_code = toUpperCase(r.country)
     /\ r.type \in {<<"c","i","t","y">>, <<"c","o","u","n","t","r","y">>}
          => row.type = (IF r.type = <<"c","i","t","y">> THEN "city" ELSE "country")}

\* name ASC: names are compared letter by letter without regard to case;
\* names that differ in case only may come in either order.
CharRank(c) == IF IsIn(LowerOf(c), LowerCaseSeq) THEN LetterIndex(LowerOf(c), LowerCaseSeq) ELSE 0

RECURSIVE NameLess(_, _)
NameLess(a, b) ==
  IF b = <<>> THEN FALSE
  ELSE IF a = <<>> THEN TRUE
  ELSE IF CharRank(Head(a)) # CharRank(Head(b)) THEN CharRank(Head(a)) < CharRank(Head(b))
  ELSE NameLess(Tail(a), Tail(b))

\* ORDER BY score DESC, name ASC (line 173): x must come before y.
Before(x, y) ==
  \/ RatLess(y.score, x.score)
  \/ RatEq(x.score, y.score) /\ NameLess(x.name, y.name)

\* The orders in which the store may return a set of rows.
Orderings(rows) ==
  {o \in [1..Cardinality(rows) -> rows] :
     /\ \A i, j \in 1..Cardinality(rows) : i # j => o[i] # o[j]
     /\ \A i, j \in 1..Cardinality(rows) : i < j => ~Before(o[j], o[i])}

\* The default of limit (line 55), 20 and 10 in the code and scaled down
\* here, and parseInt(limit) (line 174).
DefaultLimit == 2
AutocompleteLimit == 1

\* A limit whose default is the same with and without autocomplete.
limitSameDefault(r) == IF r.limit = Absent THEN Num(DefaultLimit) ELSE parseInt(r.limit)

limitOf(r) ==
  IF r.limit = Absent
  THEN Num(IF r.autocomplete = <<"t","r","u","e">> THEN AutocompleteLimit ELSE DefaultLimit)
  ELSE parseInt(r.limit)

\* A LIMIT that cuts nothing.
TakeAll(o, n) == o

Take(o, n) == SubSeq(o, 1, Min(n, Len(o)))

\* The name of the place put under "en" whatever the aggregate has.
alwaysEnglish(translations, name) ==
  [l \in DOMAIN translations \cup {En} |-> IF l = En THEN name ELSE translations[l]]

\* Lines 190-195: the aggregate, with the name of the place under "en" when
\* the aggregate has no "en" or an empty one.
withEnglish(translations, name) ==
  IF En \in DOMAIN translations /\ translations[En] # <<>> THEN translations
  ELSE [l \in DOMAIN translations \cup {En} |-> IF l = En THEN name ELSE translations[l]]

\* The result the handler builds of a row (lines 178-203), without its
\* coordinates and spoken languages.  Only the result of a city has the key
\* admin_region (lines 187-188).
formatted(row) ==
  [type |-> row.type, name |-> row.name, country_code |-> row.country_code,
   country_name |-> row.country_name,
   admin_region |-> IF row.type = "city" THEN row.admin_region ELSE Absent,
   name_translations |-> IF row.type = "city"
                         THEN withEnglish(row.name_translations_agg, row.name)
                         ELSE row.country_translations]

\* API_KEYS (line 26) and authenticateApiKey (lines 28-38).
validApiKeys == {<<"d","e","m","o","-","k","e","y","-","1","2","3","4","5">>}
authenticated(r) == r.apiKey # Absent /\ r.apiKey # <<>> /\ r.apiKey \in validApiKeys

\* A test of q that accepts every q that is there.
validQueryAnyLength(r) == r.q # Absent /\ r.q # <<>>

\* The test of line 58.
validQuery(r) == r.q # Absent /\ Len(r.q) >= 2

\* The responses of lines 32-34, 59-61 and 223-225.
unauthorized ==
  [NoResponse EXCEPT !.status = 401,
                     !.error = "Invalid or missing API key. Include X-API-Key header or api_key parameter."]
invalidQuery ==
  [NoResponse EXCEPT !.status = 400,
                     !.error = "Query parameter \"q\" is required and must be at least 2 characters"]
invalidPoint ==
  [NoResponse EXCEPT !.status = 400,
                     !.error = "Parameters \"lat\" and \"lon\" are required"]

\* What pool.query throws: the connection is lost, or the statement is
\* refused.
ConnectionError == "Connection terminated unexpectedly"
SyntaxError == "invalid input syntax"

\* A catch that answers with the message of the error.
failureWithDetail(err) == [NoResponse EXCEPT !.status = 500, !.error = err]

\* The catch of lines 212-215 and 273-276: the error goes to console.error,
\* the caller gets the same text whatever it was.
failure(err) == [NoResponse EXCEPT !.status = 500, !.error = "Internal server error"]

\* A route whose handler tests q before the key is looked at.
validatesFirst(r) ==
  IF ~validQuery(r) THEN invalidQuery
  ELSE IF ~authenticated(r) THEN unauthorized
  ELSE NoResponse

\* The handler of /search up to its await: the response it sends at once
\* (line 32, line 59), or NoResponse when it has sent the query (line 176).
searchArrival(r) ==
  IF ~authenticated(r) THEN unauthorized
  ELSE IF ~validQuery(r) THEN invalidQuery
  ELSE NoResponse

\* The handler of /search after its await: pool.query returns (lines
\* 176-210) or throws (lines 212-215).  LIMIT NaN is an error of the store.
searchAnswers(r, fails) ==
  IF fails THEN {failure(ConnectionError)}
  ELSE IF limitOf(r) = NaN THEN {failure(SyntaxError)}
  ELSE {LET rows == Take(o, limitOf(r).v) IN
          [status |-> 200, error |-> "", rows |-> rows,
           results |-> [i \in 1..Len(rows) |-> formatted(rows[i])]] :
        o \in UNION {Orderings(Filtered(r, agg)) : agg \in Aggregates(r.q)}}

\* A request arrives: 401, 400, or the query is sent.
Request(r) ==
  /\ req = NoRequest
  /\ req' = r
  /\ resp' = searchArrival(r)
  /\ UNCHANGED <<prev, dbVars, altVars, runVars>>

\* pool.query returns or throws.
Respond(fails) ==
  /\ req # NoRequest /\ resp = NoResponse
  /\ resp' \in searchAnswers(req, fails)
  /\ UNCHANGED <<req, prev, dbVars, altVars, runVars>>

\* The response has been sent.
Sent ==
  /\ resp # NoResponse
  /\ req' = NoRequest
  /\ resp' = NoResponse
  /\ UNCHANGED <<prev, dbVars, altVars, runVars>>

\* The stores of SpecSearch: place 1 under each choice of a name, an ascii
\* name and at most one alternate name, place 2 in a country that is not
\* stored, and the countries of the list.
CityNames == {<<"A","b">>, <<"A","b","c">>, <<"B","c">>, <<"C","a","b">>}
AsciiNames == {<<"A","b">>, <<"C","a","b">>}
NoName == <<>>

SearchCities(name, ascii) ==
  [k \in {1, 2} |->
     IF k = 1 THEN [CityRecord(PlacesDump[1]) EXCEPT !.name = name, !.ascii_name = ascii]
     ELSE [CityRecord(PlacesDump[2]) EXCEPT !.name = <<"A","b","c">>,
                                            !.ascii_name = <<"A","b","c">>,
                                            !.country_code = <<"Z","Z">>]]

\* The alternate names of place 1: `alt` in French unless it is NoName, and
\* "Ca" in the language `lang2` unless that is NoName.
SearchAltNames(alt, lang2) ==
  LET row(id, lang, name) ==
        AltRecord([alternatenameid |-> id, geonameid |-> <<"1">>,
                   isolanguage |-> lang, alternate_name |-> name,
                   is_preferred_name |-> <<>>, is_short_name |-> <<>>,
                   is_colloquial |-> <<>>, is_historic |-> <<>>])
  IN [k \in (IF alt = NoName THEN {} ELSE {1}) \cup (IF lang2 = NoName THEN {} ELSE {2}) |->
        IF k = 1 THEN row(<<"1">>, <<"f","r">>, alt) ELSE row(<<"2">>, lang2, <<"C","a">>)]

SeededCountries ==
  [code \in {CountrySeed[i].code : i \in 1..Len(CountrySeed)} |->
     CountryRecord(CountrySeed[CHOOSE i \in 1..Len(CountrySeed) : CountrySeed[i].code = code])]

\* The requests of SpecSearch.
QueryChars == {"a", "b", "_"}
MaxQueryLen == 3

RECURSIVE StringsOf(_)
StringsOf(n) ==
  IF n = 0 THEN {<<>>}
  ELSE {<<>>} \cup {<<c>> \o t : c \in QueryChars, t \in StringsOf(n - 1)}

Queries == {t \in StringsOf(MaxQueryLen) : Len(t) >= 2} \cup {<<"A","B">>, <<"a","b","c">>}

DemoKey == <<"d","e","m","o","-","k","e","y","-","1","2","3","4","5">>

SearchRequest(key, q, country, type, autocomplete, limit) ==
  [path |-> "/search", apiKey |-> key, q |-> q, country |-> country, type |-> type,
   autocomplete |-> autocomplete, limit |-> limit]

Requests ==
  {SearchRequest(DemoKey, q, Absent, Absent, Absent, Absent) : q \in Queries}
  \cup {SearchRequest(DemoKey, q, country, type, Absent, limit) :
          q \in {<<"a","b">>, <<"_","_">>},
          country \in {Absent, <<"i","n">>, <<"I","N">>},
          type \in {Absent, <<"c","i","t","y">>, <<"c","o","u","n","t","r","y">>, <<"x">>},
          limit \in {Absent, <<"1">>}}
  \cup {SearchRequest(DemoKey, <<"_","_">>, Absent, Absent, Absent, limit) :
          limit \in {<<"0">>, <<"x">>}}
  \cup {SearchRequest(key, q, Absent, Absent, <<"t","r","u","e">>, Absent) :
          key \in {Absent, <<"k">>, DemoKey}, q \in {Absent, <<>>, <<"a">>, <<"a","b">>}}

SearchInit ==
  /\ PumpInit(0, 0)
  /\ RunsIdle
  /\ SearchIdle
  /\ countries = SeededCountries
  /\ \E name \in CityNames, ascii \in AsciiNames : cities = SearchCities(name, ascii)
  /\ \E alt \in CityNames \cup {NoName}, lang2 \in {NoName, En, <<"f","r">>} :
        alternate_names = SearchAltNames(alt, lang2)

SearchNext ==
  \/ \E r \in Requests : Request(r)
  \/ \E fails \in BOOLEAN : Respond(fails)
  \/ Sent

SpecSearch == SearchInit /\ [][SearchNext]_vars

\* SpecPair: requests that differ in the case of `country`, in `autocomplete`
\* and in `limit`, answered one after the other over one store; the request
\* answered before is kept with its response.
SentAndKept ==
  /\ resp # NoResponse
  /\ prev' = [req |-> req, resp |-> resp]
  /\ req' = NoRequest
  /\ resp' = NoResponse
  /\ UNCHANGED <<dbVars, altVars, runVars>>

PairRequests ==
  {SearchRequest(DemoKey, <<"_","_">>, country, Absent, autocomplete, limit) :
     country \in {Absent, <<"i","n">>, <<"I","n">>, <<"I","N">>, <<"i","e">>},
     autocomplete \in {Absent, <<"t","r","u","e">>, <<"f","a","l","s","e">>},
     limit \in {Absent, <<"1">>, <<"2">>}}

PairInit ==
  /\ PumpInit(0, 0)
  /\ RunsIdle
  /\ SearchIdle
  /\ countries = SeededCountries
  /\ cities = SearchCities(<<"A","b">>, <<"A","b">>)
  /\ alternate_names = SearchAltNames(<<"B","c">>, En)

PairNext ==
  \/ \E r \in PairRequests : Request(r)
  \/ \E fails \in BOOLEAN : Respond(fails)
  \/ SentAndKept

SpecPair == PairInit /\ [][PairNext]_vars

----------------------------------------------------------------------------
(* SpecReverse: GET /reverse (server.js, lines 218-277) against a store of  *)
(* places along one meridian.                                               *)

\* The text of a float8 or an integer parameter as PostgreSQL reads it: the
\* whole text must be a number, or the statement fails (NaN here).
float8in(s) ==
  IF \A i \in 1..Len(s) : DigitValue(s[i]) >= 0 \/ s[i] \in {".", "-"}
  THEN parseFloat(s) ELSE NaN

int4in(s) ==
  IF \A i \in 1..Len(s) : DigitValue(s[i]) >= 0 THEN parseInt(s) ELSE NaN

\* The default of radius (line 220) and the LIMIT of the query (line 252).
DefaultRadius == 50
ReverseLimit == 5

\* $3 of the query: `$3 * 1000` makes it an integer.
radiusOf(r) == IF r.radius = Absent THEN Num(DefaultRadius) ELSE int4in(r.radius)

\* ST_Distance of lines 240-243, in metres, on the grid of the model:
\* coordinates are hundredths of a degree, a hundredth of a degree is taken
\* as 1110 m, and the way is along the meridian and then along the parallel.
Abs(x) == IF x < 0 THEN 0 - x ELSE x
ST_Distance(lat1, lon1, lat2, lon2) == 1110 * (Abs(lat1 - lat2) + Abs(lon1 - lon2))

\* The rows of the query before ORDER BY and LIMIT (lines 229-250): the
\* places with a stored country within $3 * 1000 metres of the point.
reverseRow(id, lat, lon) ==
  [type |-> "city", geonameid |-> id, name |-> cities[id].name,
   country_code |-> cities[id].country_code,
   country_name |-> countries[cities[id].country_code].name,
   admin_region |-> cities[id].admin1_name,
   metres |-> ST_Distance(lat, lon, cities[id].latitude.v, cities[id].longitude.v)]

\* A WHERE that keeps every place with a stored country.
anyDistance(r) ==
  {reverseRow(id, float8in(r.lat).v, float8in(r.lon).v) :
     id \in {i \in DOMAIN cities : cities[i].country_code \in DOMAIN countries}}

ST_DWithin(r) ==
  LET lat == float8in(r.lat).v
      lon == float8in(r.lon).v
  IN {reverseRow(id, lat, lon) :
        id \in {i \in DOMAIN cities :
                  /\ cities[i].country_code \in DOMAIN countries
                  /\ cities[i].latitude.t = "num" /\ cities[i].longitude.t = "num"
                  /\ ST_Distance(lat, lon, cities[i].latitude.v, cities[i].longitude.v)
                        <= radiusOf(r).v * 1000}}

\* ORDER BY distance_km ASC (line 251): the orders the store may return.
RECURSIVE NearestFirst(_)
NearestFirst(rows) ==
  IF rows = {} THEN {<<>>}
  ELSE UNION {{<<x>> \o t : t \in NearestFirst(rows \ {x})} :
                x \in {y \in rows : \A z \in rows : y.metres <= z.metres}}

\* A result of lines 257-265: distance_km is the distance in kilometres
\* rounded to the hundredth (toFixed(2)), here in hundredths of a kilometre.
reverseFormatted(row) ==
  [type |-> row.type, name |-> row.name, country_code |-> row.country_code,
   country_name |-> row.country_name, admin_region |-> row.admin_region,
   distance_km |-> (row.metres + 5) \div 10]

ReverseRequest(key, lat, lon, radius) ==
  [path |-> "/reverse", apiKey |-> key, lat |-> lat, lon |-> lon, radius |-> radius]

\* A test that looks at lat only.
hasLat(r) == r.lat \notin {Absent, <<>>}

\* The test of line 222: lat and lon are there and not empty.
hasLatLon(r) == r.lat \notin {Absent, <<>>} /\ r.lon \notin {Absent, <<>>}

\* The handler of /reverse up to its await: the response it sends at once
\* (line 32, line 223), or NoResponse when it has sent the query (line 255).
reverseArrival(r) ==
  IF ~authenticated(r) THEN unauthorized
  ELSE IF ~hasLatLon(r) THEN invalidPoint
  ELSE NoResponse

\* The handler of /reverse after its await: pool.query returns (lines
\* 255-271) or throws (lines 273-276).
reverseAnswers(r, fails) ==
  IF fails THEN {failure(ConnectionError)}
  ELSE IF float8in(r.lat) = NaN \/ float8in(r.lon) = NaN \/ radiusOf(r) = NaN
       THEN {failure(SyntaxError)}
  ELSE {LET rows == Take(o, ReverseLimit) IN
          [status |-> 200, error |-> "", rows |-> rows,
           results |-> [i \in 1..Len(rows) |-> reverseFormatted(rows[i])]] :
        o \in NearestFirst(ST_DWithin(r))}

\* A request arrives: 401, 400, or the query is sent.
ReverseArrives(r) ==
  /\ req = NoRequest
  /\ req' = r
  /\ resp' = reverseArrival(r)
  /\ UNCHANGED <<prev, dbVars, altVars, runVars>>

\* pool.query returns or throws.
ReverseRespond(fails) ==
  /\ req # NoRequest /\ resp = NoResponse
  /\ resp' \in reverseAnswers(req, fails)
  /\ UNCHANGED <<req, prev, dbVars, altVars, runVars>>

\* The places of SpecReverse: on the meridian of 20 degrees, at the latitudes
\* 10.00, 10.01, 9.99, 10.02, 10.03, 10.45 and 10.46 degrees and at `far`;
\* the place at 10.02 is in a country that is not stored.
ReversePlaces(far) ==
  << PlaceRow(<<"1">>, <<"R","a">>, <<"I","N">>, <<"1","0",".","0","0">>, <<"2","0">>),
     PlaceRow(<<"2">>, <<"R","b">>, <<"I","N">>, <<"1","0",".","0","1">>, <<"2","0">>),
     PlaceRow(<<"3">>, <<"R","c">>, <<"I","E">>, <<"9",".","9","9">>, <<"2","0">>),
     PlaceRow(<<"4">>, <<"R","d">>, <<"Z","Z">>, <<"1","0",".","0","2">>, <<"2","0">>),
     PlaceRow(<<"5">>, <<"R","e">>, <<"I","N">>, <<"1","0",".","0","3">>, <<"2","0">>),
     PlaceRow(<<"6">>, <<"R","f">>, <<"I","N">>, <<"1","0",".","4","5">>, <<"2","0">>),
     PlaceRow(<<"7">>, <<"R","g">>, <<"I","N">>, <<"1","0",".","4","6">>, <<"2","0">>),
     PlaceRow(<<"8">>, <<"R","h">>, <<"I","E">>, far, <<"2","0">>) >>

ReverseRequests ==
  {ReverseRequest(DemoKey, lat, lon, radius) :
     lat \in {Absent, <<"1","0">>, <<"1","0",".","0","1">>, <<"x">>},
     lon \in {Absent, <<"2","0">>},
     radius \in {Absent, <<"0">>, <<"1">>, <<"3">>, <<"1",".","5">>}}
  \cup {ReverseRequest(<<"k">>, <<"1","0">>, <<"2","0">>, Absent)}

ReverseInit ==
  /\ PumpInit(0, 0)
  /\ RunsIdle
  /\ SearchIdle
  /\ countries = SeededCountries
  /\ \E far \in {<<"1","0",".","0","4">>, <<"1","1">>, <<"9",".","5","5">>} :
        cities = [k \in 1..Len(ReversePlaces(far)) |-> CityRecord(ReversePlaces(far)[k])]
  /\ alternate_names = EmptyTable

ReverseNext ==
  \/ \E r \in ReverseRequests : ReverseArrives(r)
  \/ \E fails \in BOOLEAN : ReverseRespond(fails)
  \/ Sent

SpecReverse == ReverseInit /\ [][ReverseNext]_vars

----------------------------------------------------------------------------
(* SpecServe: the service with two requests in flight at a time, of /search *)
(* and of /reverse, over one store.  Here req and resp hold one request and *)
(* one response per slot, and prev is the set of the <<request, response>>  *)
(* pairs sent so far.  A handler runs up to its await without interruption, *)
(* and from the return of its query to its response without interruption.   *)

Slots == {1, 2}

arrival(r) == IF r.path = "/search" THEN searchArrival(r) ELSE reverseArrival(r)
answers(r, fails) ==
  IF r.path = "/search" THEN searchAnswers(r, fails) ELSE reverseAnswers(r, fails)

Arrive(s, r) ==
  /\ req[s] = NoRequest
  /\ req' = [req EXCEPT ![s] = r]
  /\ resp' = [resp EXCEPT ![s] = arrival(r)]
  /\ UNCHANGED <<prev, dbVars, altVars, runVars>>

Answer(s, fails) ==
  /\ req[s] # NoRequest /\ resp[s] = NoResponse
  /\ \E a \in answers(req[s], fails) : resp' = [resp EXCEPT ![s] = a]
  /\ UNCHANGED <<req, prev, dbVars, altVars, runVars>>

\* A handler that deletes the first place it returned.
SendAndEvict(s) ==
  /\ resp[s] # NoResponse
  /\ prev' = prev \cup {<<req[s], resp[s]>>}
  /\ req' = [req EXCEPT ![s] = NoRequest]
  /\ resp' = [resp EXCEPT ![s] = NoResponse]
  /\ cities' = IF resp[s].rows # <<>> /\ resp[s].rows[1].type = "city"
               THEN [id \in DOMAIN cities \ {resp[s].rows[1].geonameid} |-> cities[id]]
               ELSE cities
  /\ UNCHANGED <<countries, alternate_names, altVars, runVars>>

\* The response of slot s has been sent.
Send(s) ==
  /\ resp[s] # NoResponse
  /\ prev' = prev \cup {<<req[s], resp[s]>>}
  /\ req' = [req EXCEPT ![s] = NoRequest]
  /\ resp' = [resp EXCEPT ![s] = NoResponse]
  /\ UNCHANGED <<dbVars, altVars, runVars>>

\* The store of SpecServe: four places on the meridian of 20 degrees at
\* different distances from 10 degrees north, the second in a country that
\* is not stored, and two alternate names of the first.
ServeCities ==
  LET rows == << PlaceRow(<<"1">>, <<"A","b">>, <<"I","N">>, <<"1","0">>, <<"2","0">>),
                 PlaceRow(<<"2">>, <<"A","b","c">>, <<"Z","Z">>, <<"1","0",".","0","2">>, <<"2","0">>),
                 PlaceRow(<<"3">>, <<"R","b">>, <<"I","N">>, <<"1","0",".","0","1">>, <<"2","0">>),
                 PlaceRow(<<"4">>, <<"R","c">>, <<"I","E">>, <<"1","0",".","0","3">>, <<"2","0">>) >>
  IN [k \in 1..Len(rows) |-> CityRecord(rows[k])]

ServeRequests ==
  {SearchRequest(DemoKey, <<"_","_">>, Absent, Absent, Absent, limit) : limit \in {Absent, <<"x">>}}
  \cup {SearchRequest(key, <<"a">>, Absent, Absent, Absent, Absent) : key \in {DemoKey, Absent}}
  \cup {ReverseRequest(DemoKey, <<"1","0">>, lon, Absent) : lon \in {<<"2","0">>, Absent}}

ServeInit ==
  /\ PumpInit(0, 0)
  /\ RunsIdle
  /\ req = [s \in Slots |-> NoRequest]
  /\ resp = [s \in Slots |-> NoResponse]
  /\ prev = {}
  /\ countries = SeededCountries
  /\ cities = ServeCities
  /\ alternate_names = SearchAltNames(<<"B","c">>, En)

ServeNext ==
  \/ \E s \in Slots, r \in ServeRequests : Arrive(s, r)
  \/ \E s \in Slots, fails \in BOOLEAN : Answer(s, fails)
  \/ \E s \in Slots : Send(s)

SpecServe == ServeInit /\ [][ServeNext]_vars

----------------------------------------------------------------------------
(* SpecAuth: requests of /search and /reverse with the key in the header,   *)
(* in the query string, in both or in neither, one request at a time.       *)

\* req.headers['x-api-key'] || req.query.api_key (line 29): an empty string
\* is falsy.
apiKeyOf(header, param) == IF header \notin {Absent, <<>>} THEN header ELSE param

\* A request with the places of its key.
Keyed(r, header, param) ==
  [f \in DOMAIN r \cup {"header", "param"} |->
     CASE f = "header" -> header
       [] f = "param" -> param
       [] f = "apiKey" -> apiKeyOf(header, param)
       [] OTHER -> r[f]]

AuthRequests ==
  {Keyed(r, header, param) :
     header \in {Absent, <<>>, <<"k">>, DemoKey},
     param \in {Absent, <<>>, <<"k">>, DemoKey},
     r \in {SearchRequest(Absent, q, Absent, Absent, Absent, Absent) :
              q \in {Absent, <<"a">>, <<"A","b">>, <<"R","b">>}}
           \cup {ReverseRequest(Absent, lat, lon, Absent) :
                   lat \in {Absent, <<"1","0">>}, lon \in {Absent, <<"2","0">>}}}

\* A request arrives at its route: authenticateApiKey, then the handler up
\* to its await.
Handle(r) ==
  /\ req = NoRequest
  /\ req' = r
  /\ resp' = arrival(r)
  /\ UNCHANGED <<prev, dbVars, altVars, runVars>>

\* pool.query of the handler returns or throws.
Query(fails) ==
  /\ req # NoRequest /\ resp = NoResponse
  /\ resp' \in answers(req, fails)
  /\ UNCHANGED <<req, prev, dbVars, altVars, runVars>>

AuthInit ==
  /\ PumpInit(0, 0)
  /\ RunsIdle
  /\ SearchIdle
  /\ countries = SeededCountries
  /\ cities = ServeCities
  /\ alternate_names = SearchAltNames(<<"B","c">>, En)

AuthNext ==
  \/ \E r \in AuthRequests : Handle(r)
  \/ \E fails \in BOOLEAN : Query(fails)
  \/ Sent

SpecAuth == AuthInit /\ [][AuthNext]_vars

----------------------------------------------------------------------------
(* SpecRegion: the places load fills an empty table while /search and       *)
(* /reverse are answered from it.                                           *)

\* Rows of the places dump with and without an admin1 code (the dump has no
\* column for the name of the region), one of them with an id that is not
\* a number.
RegionDump ==
  LET row(id, name, cc, lat, code) ==
        [PlaceRow(id, name, cc, lat, <<"2","0">>) EXCEPT !.admin1_code = code]
  IN { row(<<"1">>, <<"A","b">>, <<"I","N">>, <<"1","0">>, <<"E","N","G">>),
       row(<<"2">>, <<"A","b","c">>, <<"I","E">>, <<"1","0",".","0","2">>, <<>>),
       row(<<"3">>, <<"R","b">>, <<"I","N">>, <<"1","0",".","0","1">>, <<"0","7">>),
       row(<<"x">>, <<"R","c">>, <<"I","N">>, <<"1","0">>, <<"E","N","G">>),
       row(<<"1">>, <<"A","b">>, <<"I","N">>, <<"1","0">>, <<"0","7">>) }

RegionRequests ==
  {SearchRequest(DemoKey, q, Absent, Absent, Absent, Absent) :
     q \in {<<"a","b">>, <<"R","b">>, <<"I","n">>}}
  \cup {ReverseRequest(DemoKey, <<"1","0">>, <<"2","0">>, Absent)}

\* The 'data' handler of loadCitiesData with its INSERT (lines 469-494).
ImportCity(row) ==
  /\ cities' = insertCity(cities, row)
  /\ UNCHANGED <<countries, alternate_names, searchVars, altVars, runVars>>

RegionInit ==
  /\ PumpInit(0, 0)
  /\ RunsIdle
  /\ SearchIdle
  /\ countries = SeededCountries
  /\ cities = EmptyTable
  /\ alternate_names = EmptyTable

RegionNext ==
  \/ \E row \in RegionDump : ImportCity(row)
  \/ \E r \in RegionRequests : Handle(r)
  \/ \E fails \in BOOLEAN : Query(fails)
  \/ Sent

SpecRegion == RegionInit /\ [][RegionNext]_vars

----------------------------------------------------------------------------
(* Properties of the search.                                                *)

\* s contains q as a literal substring, without regard to case.
Contains(s, q) ==
  \E i \in 1..(Len(s) - Len(q) + 1) : LOWER(SubSeq(s, i, i + Len(q) - 1)) = LOWER(q)

\* The ladder of scores: the first rule that matches, top to bottom.
LadderScore(id, q) ==
  LET c == cities[id]
      names == {alternate_names[a].alternate_name : a \in JoinedAlts(id)}
      m == MaxOf({similarity(c.name, q), similarity(c.ascii_name, q)}
                   \cup {similarity(n, q) : n \in names})
  IN IF LOWER(c.name) = LOWER(q) THEN Rat(100, 1)
     ELSE IF LOWER(c.ascii_name) = LOWER(q) THEN Rat(95, 1)
     ELSE IF \E n \in names : LOWER(n) = LOWER(q) THEN Rat(90, 1)
     ELSE IF Contains(c.name, q) THEN Rat(80, 1)
     ELSE IF Contains(c.ascii_name, q) THEN Rat(75, 1)
     ELSE IF \E n \in names : Contains(n, q) THEN Rat(70, 1)
     ELSE Rat(10 * m.num, m.den)

\* C10: the score of every city of a result list is the score of the first
\* rule of the ladder that matches: 100, 95, 90 for an exact match of the
\* name, the ascii name, an alternate name; 80, 75, 70 for a substring match
\* of them; otherwise ten times the largest similarity.
C10_CityLadder ==
  resp.status = 200 =>
    \A i \in 1..Len(resp.rows) :
       resp.rows[i].type = "city" =>
          RatEq(resp.rows[i].score, LadderScore(resp.rows[i].geonameid, req.q))

\* The ladder of scores of a country: as LadderScore, without the ascii name.
CountryLadder(code, q) ==
  LET co == countries[code]
      names == countryAltNames(code)
      m == MaxOf({similarity(co.name, q)} \cup {similarity(n, q) : n \in names})
  IN IF LOWER(co.name) = LOWER(q) THEN Rat(100, 1)
     ELSE IF \E n \in names : LOWER(n) = LOWER(q) THEN Rat(90, 1)
     ELSE IF Contains(co.name, q) THEN Rat(80, 1)
     ELSE IF \E n \in names : Contains(n, q) THEN Rat(70, 1)
     ELSE Rat(10 * m.num, m.den)

\* C11: the score of every country of a result list is the score of the first
\* rule of the country ladder that matches: 100 for an exact match of the
\* name, 90 for an exact match of an alternate name, 80 and 70 for a substring
\* match of them, otherwise ten times the largest similarity.
C11_CountryLadder ==
  resp.status = 200 =>
    \A i \in 1..Len(resp.rows) :
       resp.rows[i].type = "country" =>
          RatEq(resp.rows[i].score, CountryLadder(resp.rows[i].country_code, req.q))

\* The tier of the ladder a row matches: 100 down to 70, or 0 when it has no
\* exact and no substring match (a fuzzy-only candidate).
LadderTier(row, q) ==
  LET l == IF row.type = "city" THEN LadderScore(row.geonameid, q)
           ELSE CountryLadder(row.country_code, q)
  IN IF RatLess(l, Rat(70, 1)) THEN 0 ELSE l.num

\* C12: in every result list no row comes after a row of a lower tier, and
\* every fuzzy-only row has a score from 0 to 10.
C12_TierOrder ==
  resp.status = 200 =>
    /\ \A i, j \in 1..Len(resp.rows) :
          i < j => LadderTier(resp.rows[i], req.q) >= LadderTier(resp.rows[j], req.q)
    /\ \A i \in 1..Len(resp.rows) :
          LadderTier(resp.rows[i], req.q) = 0
             => /\ ~RatLess(resp.rows[i].score, Rat(0, 1))
                /\ ~RatLess(Rat(10, 1), resp.rows[i].score)

\* The limit of a request that was answered with a list: the one given, or
\* the default.
GivenLimit(r) ==
  IF r.limit # Absent THEN parseInt(r.limit).v
  ELSE IF r.autocomplete = <<"t","r","u","e">> THEN AutocompleteLimit ELSE DefaultLimit

\* A row passes the filters of request r.
PassesFilters(row, r) ==
  /\ (r.country # Absent /\ r.country # <<>>) => row.country_code = toUpperCase(r.country)
  /\ r.type = <<"c","i","t","y">> => row.type = "city"
  /\ r.type = <<"c","o","u","n","t","r","y">> => row.type = "country"

\* The candidates of a query, each by its type and key.
RowKey(row) == <<row.type, row.geonameid, row.country_code>>
CandidateRows(q) == UNION {search_results(q, agg) : agg \in Aggregates(q)}

\* C13: a result list has at most `limit` rows, all of them candidates that
\* pass the filters, no candidate twice, in the order of score descending and
\* name ascending; a candidate that passes the filters is left out only of a
\* full list and never comes before a returned row in that order.
C13_FilterSortTruncate ==
  resp.status = 200 =>
    LET rows == resp.rows
        n == Len(rows)
    IN /\ n <= GivenLimit(req)
       /\ \A i \in 1..n : rows[i] \in CandidateRows(req.q) /\ PassesFilters(rows[i], req)
       /\ \A i, j \in 1..n : i # j => RowKey(rows[i]) # RowKey(rows[j])
       /\ \A i, j \in 1..n :
             i < j => \/ RatLess(rows[j].score, rows[i].score)
                      \/ /\ RatEq(rows[i].score, rows[j].score)
                         /\ ~NameLess(rows[j].name, rows[i].name)
       /\ \A c \in CandidateRows(req.q) :
             (PassesFilters(c, req) /\ \A i \in 1..n : RowKey(rows[i]) # RowKey(c))
                => /\ n = GivenLimit(req)
                   /\ \A i \in 1..n :
                         ~ \/ RatLess(rows[i].score, c.score)
                           \/ RatEq(rows[i].score, c.score) /\ NameLess(c.name, rows[i].name)

\* C13 witness: a list cut to a given limit, with a country filter that a
\* candidate fails and a candidate that passes it left out.
C13_Witness ==
  /\ resp.status = 200 /\ req.limit = <<"1">> /\ req.country # Absent
  /\ Len(resp.rows) = 1
  /\ \E c \in CandidateRows(req.q) : ~PassesFilters(c, req)
  /\ \E c \in CandidateRows(req.q) :
        PassesFilters(c, req) /\ RowKey(c) # RowKey(resp.rows[1])

\* C14 as stated: an unfiltered search for the name of a stored place returns
\* a city of that name with the score 100.
C14_ExactNameIsReturned ==
  (resp.status = 200 /\ req.country = Absent /\ req.type = Absent) =>
     \A id \in DOMAIN cities :
        LOWER(cities[id].name) = LOWER(req.q)
           => \E i \in 1..Len(resp.rows) :
                 /\ resp.rows[i].type = "city"
                 /\ resp.rows[i].name = cities[id].name
                 /\ RatEq(resp.rows[i].score, Rat(100, 1))

\* The names place id has stored in language l.
StoredNames(id, l) ==
  {alternate_names[a].alternate_name :
     a \in {x \in JoinedAlts(id) : alternate_names[x].isolanguage = l}}

StoredLanguages(id) == {alternate_names[a].isolanguage : a \in JoinedAlts(id)}

\* C15 as stated: the translations of every city result have one entry for
\* each language the place has an alternate name in, its value a name of the
\* place in that language, and the entry "en", which is the name of the place
\* when the place has no alternate name in "en".
C15_AllLanguages ==
  resp.status = 200 =>
    \A i \in 1..Len(resp.rows) :
       resp.rows[i].type = "city" =>
          LET id == resp.rows[i].geonameid
              t == resp.results[i].name_translations
          IN /\ DOMAIN t = StoredLanguages(id) \cup {En}
             /\ \A l \in StoredLanguages(id) : t[l] \in StoredNames(id, l)
             /\ En \notin StoredLanguages(id) => t[En] = resp.rows[i].name

\* C16: the translations of every city result have an entry "en": the "en"
\* of the aggregate the store returned when it has one, the name of the place
\* when it has none; the other entries are those of the aggregate.
C16_EnglishEntry ==
  resp.status = 200 =>
    \A i \in 1..Len(resp.rows) :
       resp.rows[i].type = "city" =>
          LET agg == resp.rows[i].name_translations_agg
              t == resp.results[i].name_translations
          IN /\ En \in DOMAIN t
             /\ En \in DOMAIN agg => t[En] = agg[En]
             /\ En \notin DOMAIN agg => t[En] = resp.rows[i].name
             /\ DOMAIN t = DOMAIN agg \cup {En}
             /\ \A l \in DOMAIN agg : t[l] = agg[l]

\* C16 witness: a city result whose aggregate has an "en" that is not the
\* name of the place, and one in the same list or store whose aggregate has
\* none.
C16_Witness ==
  /\ resp.status = 200
  /\ \E i \in 1..Len(resp.rows) :
        /\ resp.rows[i].type = "city"
        /\ En \in DOMAIN resp.rows[i].name_translations_agg
        /\ resp.rows[i].name_translations_agg[En] # resp.rows[i].name
        /\ resp.results[i].name_translations[En] = <<"C","a">>

\* Requests a and b differ at most in the letter case of `country`.
SameButCountryCase(a, b) ==
  /\ a.country # Absent /\ b.country # Absent
  /\ toLowerCase(a.country) = toLowerCase(b.country)
  /\ [a EXCEPT !.country = b.country] = b

\* C17: every result of a search with a country filter has the filter's
\* value in upper case as its country_code, and two searches that differ in
\* the letter case of `country` only return the same list.
C17_CountryCaseInsensitive ==
  /\ (resp.status = 200 /\ req.country # Absent) =>
        \A i \in 1..Len(resp.results) :
           resp.results[i].country_code = toUpperCase(req.country)
  /\ (resp.status = 200 /\ prev.resp.status = 200 /\ SameButCountryCase(prev.req, req)) =>
        resp.results = prev.resp.results

\* C17 witness: two searches with `country` in different case were answered
\* one after the other with a list that is not empty.
C17_Witness ==
  /\ resp.status = 200 /\ prev.resp.status = 200
  /\ SameButCountryCase(prev.req, req) /\ prev.req.country # req.country
  /\ resp.results # <<>>

\* q is missing, empty or one character long.
ShortQuery(r) == r.q = Absent \/ Len(r.q) < 2

\* C18: a search whose q is missing or shorter than 2 characters is never
\* sent to the store and never answered with a list: past the key check it is
\* answered with the validation error 400.
C18_ShortQueryRejected ==
  (req # NoRequest /\ ShortQuery(req)) =>
     /\ resp.status \in {400, 401}
     /\ authenticated(req) => resp.status = 400

\* C18 witness: a request with a valid key and a q of one character has its
\* answer.
C18_Witness ==
  /\ req # NoRequest /\ authenticated(req) /\ req.q = <<"a">>
  /\ resp.status = 400

\* The number of candidates of request r that pass its filters.
FilteredCount(r) ==
  Cardinality({RowKey(c) : c \in {x \in CandidateRows(r.q) : PassesFilters(x, r)}})

\* Requests a and b differ at most in `autocomplete`.
SameButAutocomplete(a, b) == [a EXCEPT !.autocomplete = b.autocomplete] = b

\* C19: without `limit` a list has the first AutocompleteLimit candidates when
\* autocomplete is "true" and the first DefaultLimit otherwise; with the same
\* `limit` given, searches that differ in `autocomplete` only return the same
\* list.
C19_AutocompleteDefaultOnly ==
  /\ (resp.status = 200 /\ req.limit = Absent) =>
        Len(resp.results) =
           Min(IF req.autocomplete = <<"t","r","u","e">> THEN AutocompleteLimit
               ELSE DefaultLimit, FilteredCount(req))
  /\ (resp.status = 200 /\ prev.resp.status = 200 /\ req.limit # Absent
        /\ SameButAutocomplete(prev.req, req)) =>
        resp.results = prev.resp.results

\* C19 witness: the same search without `limit` was answered with and
\* without autocomplete, with lists of different length.
C19_Witness ==
  /\ resp.status = 200 /\ prev.resp.status = 200
  /\ req.limit = Absent /\ req.autocomplete = <<"t","r","u","e">>
  /\ SameButAutocomplete(prev.req, req) /\ prev.req.autocomplete = Absent
  /\ Len(resp.results) = AutocompleteLimit
  /\ Len(prev.resp.results) = DefaultLimit

\* The radius of a request in kilometres: the one given, or 50.
GivenRadius(r) == IF r.radius = Absent THEN 50 ELSE parseInt(r.radius).v

\* C20: a reverse lookup returns at most 5 places, each within the radius of
\* the point (50 km when no radius is given), by its distance in metres and
\* by the distance_km of the result, and the distances do not decrease along
\* the list.
C20_ReverseNearest ==
  (req # NoRequest /\ req.path = "/reverse" /\ resp.status = 200) =>
     LET n == Len(resp.results) IN
     /\ n <= 5
     /\ n = Len(resp.rows)
     /\ \A i \in 1..n :
           /\ resp.rows[i].metres <= 1000 * GivenRadius(req)
           /\ resp.results[i].distance_km <= 100 * GivenRadius(req)
     /\ \A i, j \in 1..n :
           i < j => /\ resp.rows[i].metres <= resp.rows[j].metres
                    /\ resp.results[i].distance_km <= resp.results[j].distance_km

\* C20 witness: a lookup without radius returned 5 places at different
\* distances while a sixth place is within 50 km, and a place of the store
\* is farther than that.
C20_Witness ==
  /\ req # NoRequest /\ req.path = "/reverse" /\ resp.status = 200
  /\ req.radius = Absent
  /\ Len(resp.results) = 5
  /\ resp.results[1].distance_km < resp.results[5].distance_km
  /\ Cardinality(ST_DWithin(req)) > 5
  /\ \E id \in DOMAIN cities :
        ST_Distance(float8in(req.lat).v, float8in(req.lon).v,
                    cities[id].latitude.v, cities[id].longitude.v) > 50000

\* The stored places within the radius of request r, with their distance in
\* metres, whether or not their country is stored.
StoredWithin(r) ==
  {<<id, ST_Distance(float8in(r.lat).v, float8in(r.lon).v,
                     cities[id].latitude.v, cities[id].longitude.v)>> :
     id \in {i \in DOMAIN cities :
               ST_Distance(float8in(r.lat).v, float8in(r.lon).v,
                           cities[i].latitude.v, cities[i].longitude.v)
                  <= 1000 * GivenRadius(r)}}

\* C21: the list of a reverse lookup is the min(5, n) nearest of the n stored
\* places within the radius: a stored place within the radius is in the list
\* unless the list has 5 places that are all at least as near, whether or
\* not the country of the place is stored.
C21_EveryStoredPlace ==
  (req # NoRequest /\ req.path = "/reverse" /\ resp.status = 200) =>
     /\ Len(resp.rows) = Min(5, Cardinality(StoredWithin(req)))
     /\ \A p \in StoredWithin(req) :
           \/ \E i \in 1..Len(resp.rows) : resp.rows[i].geonameid = p[1]
           \/ /\ Len(resp.rows) = 5
              /\ \A i \in 1..5 : resp.rows[i].metres <= p[2]

\* lat or lon of a reverse request is missing.
MissingPoint(r) == r.lat = Absent \/ r.lon = Absent

\* C22: a reverse lookup without lat or without lon is never sent to the
\* store and never answered with a list: past the key check it is answered
\* with the validation error 400.
C22_MissingPointRejected ==
  (req # NoRequest /\ req.path = "/reverse" /\ MissingPoint(req)) =>
     /\ resp.status \in {400, 401}
     /\ authenticated(req) => resp.status = 400

\* C22 witness: a lookup with a valid key and a lat but no lon has its answer.
C22_Witness ==
  /\ req # NoRequest /\ req.path = "/reverse" /\ authenticated(req)
  /\ req.lat = <<"1","0">> /\ req.lon = Absent
  /\ resp.status = 400

\* The <<request, response>> pairs of SpecServe: those sent, and those of the
\* slots that hold a response.
Answered == prev \cup {<<req[s], resp[s]>> : s \in {t \in Slots : resp[t] # NoResponse}}

\* C23: search and reverse are read-only and stateless.  No step of the
\* service changes the countries, the places or the alternate names, and two
\* calls with the same parameters that the store answered have the same
\* response, whatever was served before or is being served meanwhile.
C23_ReadOnlyStateless ==
  /\ [](\A p, p2 \in Answered :
          (p[1] = p2[1] /\ p[2].status # 500 /\ p2[2].status # 500) => p[2] = p2[2])
  /\ [][dbVars' = dbVars]_vars

\* C23 witness: a search that was answered before is answered again with a
\* list while a reverse lookup, answered with a list too, is in the other
\* slot, and a failure of the store lies in between.
C23_Witness ==
  /\ req[1].path = "/search" /\ resp[1].status = 200 /\ resp[1].results # <<>>
  /\ <<req[1], resp[1]>> \in prev
  /\ req[2].path = "/reverse" /\ resp[2].status = 200 /\ resp[2].results # <<>>
  /\ \E p \in prev : p[2].status = 500

\* C24: a failure of the store during a call is answered once, with the
\* status 500 and the text "Internal server error" and nothing of the error,
\* and the service goes on: after it every slot is free for the next
\* request, or waits for the store, which can answer, or holds its response.  Every response is a validation error
\* (400), a list (200) or that failure (500), or the 401 of the key check,
\* and a response that is there is not replaced by another.
C24_GenericFailure ==
  /\ [](\A p \in Answered :
          /\ p[2].status \in {200, 400, 401, 500}
          /\ authenticated(p[1]) <=> p[2].status # 401
          /\ p[2].status = 200 <=> p[2].error = ""
          /\ p[2].status = 500 =>
                /\ p[2].error = "Internal server error"
                /\ p[2].rows = <<>> /\ p[2].results = <<>>)
  /\ []((\E p \in Answered : p[2].status = 500) =>
          \A s \in Slots :
             \/ req[s] = NoRequest /\ resp[s] = NoResponse
             \/ req[s] # NoRequest /\ resp[s] = NoResponse /\ answers(req[s], FALSE) # {}
             \/ req[s] # NoRequest /\ resp[s] # NoResponse)
  /\ [][\A s \in Slots :
          resp[s] # NoResponse =>
             \/ resp'[s] = resp[s] /\ req'[s] = req[s]
             \/ resp'[s] = NoResponse /\ req'[s] = NoRequest /\ <<req[s], resp[s]>> \in prev']_vars

\* C24 witness: after a failure of the store in a search and in a reverse
\* lookup, both answered with the failure, a search is answered with a list.
C24_Witness ==
  /\ \E p, p2 \in prev :
        /\ p[1].path = "/search" /\ p[2].status = 500
        /\ p2[1].path = "/reverse" /\ p2[2].status = 500
  /\ \E s \in Slots : req[s].path = "/search" /\ resp[s].status = 200 /\ resp[s].results # <<>>

\* Line i of the file of SpecLines.
FileLine(i) == MkLine(i, files.alt[i])

\* The limits of a row: 8 columns or more, a language of 1 to 7 characters,
\* a name of at most 400.
WithinLimits(line) ==
  /\ Len(line) >= 8
  /\ line[3] # <<>> /\ Len(line[3]) <= 7
  /\ Len(line[4]) <= 400

\* The import is over: nothing is queued and no batch is being applied.
ImportOver ==
  /\ resolved /\ lineQueue = <<>> /\ micro = <<>> /\ immediates = 0
  /\ ~Active(qFlight) /\ ~Active(cFlight)

\* C28: a row is put into the batch, and a query is sent for it, only if
\* its line is within the limits; every other line is dropped without a
\* query, and every stored alternate name is within the limits.
C28_FilterLimits ==
  /\ \A i \in DOMAIN applied : applied[i] > 0 => WithinLimits(FileLine(i))
  /\ \A k \in 1..Len(batch) : WithinLimits(FileLine(LineOf(batch[k])))
  /\ \A id \in DOMAIN alternate_names :
        /\ Len(alternate_names[id].isolanguage) \in 1..7
        /\ Len(alternate_names[id].alternate_name) <= 400

\* C28 witness: the import of a row with a name of 400 characters and a row
\* with a language of 8 is over: the first is stored and no query was sent
\* for the second.
C28_Witness ==
  /\ SubSeq(files.alt, 1, 2) = <<"name400", "lang8">> /\ ImportOver
  /\ 1 \in DOMAIN alternate_names /\ Len(alternate_names[1].alternate_name) = 400
  /\ applied[2] = 0

\* SUPPORTED_LANGUAGES is unset or empty, or has the item "all".
EveryLanguage ==
  env \in {Absent, <<>>} \/ <<"a","l","l">> \in SUPPORTED_LANGUAGES

\* C29: under a language list without "all", a query is sent only for rows
\* whose language, in lower case, is in the list, and so every stored
\* alternate name has a language of the list; with the list unset, empty or
\* with "all", every row within the limits that has a name is applied, whatever
\* its language.
C29_LanguageAllowList ==
  /\ ~EveryLanguage =>
        /\ \A i \in DOMAIN applied :
              applied[i] > 0 => toLowerCase(FileLine(i)[3]) \in SUPPORTED_LANGUAGES
        /\ \A k \in 1..Len(batch) : toLowerCase(batch[k].isolanguage) \in SUPPORTED_LANGUAGES
        /\ \A id \in DOMAIN alternate_names :
              toLowerCase(alternate_names[id].isolanguage) \in SUPPORTED_LANGUAGES
  /\ (EveryLanguage /\ ImportOver) =>
        \A i \in DOMAIN applied :
           (WithinLimits(FileLine(i)) /\ FileLine(i)[4] # <<>>) => applied[i] >= 1

\* C29 witness: under the list "EN, fr" the import of a row in FR and a row
\* in de is over: the first is stored and no query was sent for the second.
C29_Witness ==
  /\ env = <<"E","N",","," ","f","r">>
  /\ SubSeq(files.alt, 1, 2) = <<"FR", "de">> /\ ImportOver
  /\ 1 \in DOMAIN alternate_names /\ alternate_names[1].isolanguage = <<"F","R">>
  /\ applied[2] = 0

----------------------------------------------------------------------------
(* Properties of the fetch and of the rows of a run (SpecIngest).           *)

\* The events of a log that are a download or an extraction that failed.
FetchFailed(e) == e[1] \in {"download", "extract"} /\ e[2] # "ok"

Downloads(log) == {k \in 1..Len(log) : log[k][1] = "download"}

RowEvents(log) == SelectSeq(log, LAMBDA e : e[1] \in {"row", "line"})

\* The last thing a run did.
LastEvent(r) ==
  LET log == IF altWork[r] # <<>> THEN altWork[r] ELSE cityWork[r] IN
  IF log = <<>> THEN <<"none">> ELSE log[Len(log)]

Unparsed(row) ==
  \/ parseInt(row.geonameid) = NaN
  \/ parseFloat(row.latitude) = NaN
  \/ parseFloat(row.longitude) = NaN

\* C27: for a places row whose id, latitude or longitude does not parse as a
\* number no place is stored, and a row with an empty population, elevation
\* or date that the store took is stored with these columns absent.
C27_UnparsedRowSkipped ==
  \A r \in Runs :
    LET rows == RowEvents(cityWork[r]) IN
    \A k \in 1..Len(rows) :
      LET row == IngestPlaces[k] IN
      /\ Unparsed(row) => \A id \in DOMAIN cities : cities[id] # CityRecord(row)
      /\ ~Unparsed(row) /\ rows[k][3] =>
           LET id == parseInt(row.geonameid).v IN
           /\ id \in DOMAIN cities
           /\ row.population = <<>> => cities[id].population = Null
           /\ row.elevation = <<>> => cities[id].elevation = Null
           /\ row.modification_date = <<>> => cities[id].modification_date = Null

\* The stage of a run in which it reads the rows of the file of dump d.
Parsing(r, d) == pc[r] = d \o "Parse"

\* C30: an archive is downloaded only when the extracted file of its dump is
\* not there: no download and no extraction is done for a dump whose file is
\* present; and a file that an extraction which did not complete has left is
\* not parsed: a run reads the rows of a whole file only.
C30_FetchOnlyIfNotCached ==
  /\ [][\A r \in Runs :
          /\ files["cities"] # -1 /\ cityWork'[r] # cityWork[r] =>
               cityWork'[r][Len(cityWork'[r])][1] \notin {"download", "extract"}
          /\ files["alt"] # -1 /\ altWork'[r] # altWork[r] =>
               altWork'[r][Len(altWork'[r])][1] \notin {"download", "extract"}]_vars
  /\ [](\A r \in Runs, d \in {"cities", "alt"} : Parsing(r, d) => files[d] = DumpRows(d))

----------------------------------------------------------------------------
(* Properties of the order of the stages of a run (SpecRuns).               *)

\* The place of a stage in main (lines 715-719).
StageRank(stage) ==
  CASE stage = "idle" -> 0
    [] stage = "countries" -> 1
    [] stage \in {"citiesProbe", "citiesFetch", "citiesParse"} -> 2
    [] stage \in {"altProbe", "altFetch", "altParse"} -> 3
    [] stage = "optimize" -> 4
    [] OTHER -> 5

\* The work of the stages before the one run r is in is over.
EarlierStagesOver(r) ==
  /\ StageRank(pc[r]) \in 2..4 => ci[r] = Len(CountrySeed)
  /\ StageRank(pc[r]) \in 3..4 => cityPos[r] \in {0, Len(PlacesDump)} /\ pendingCity[r] = {}
  /\ pc[r] = "optimize" => altPos[r] \in {0, Len(AltRows)} /\ altPhase[r] = "check"

\* C31: in every run the stages start in the order country seeding, places
\* load, alternate-names load, maintenance, and never go back, so that the
\* maintenance step is entered once; a stage starts only when the work of
\* the stages before it is over; and a run fetches one archive at a time.
C31_StagesInOrder ==
  /\ [][\A r \in Runs :
          /\ StageRank(pc'[r]) >= StageRank(pc[r])
          /\ pc[r] \in {"done", "failed"} => pc'[r] = pc[r]
          /\ cityWork'[r] # cityWork[r] => altWork'[r] = altWork[r]]_vars
  /\ [](\A r \in Runs : EarlierStagesOver(r))

----------------------------------------------------------------------------
(* Properties of the end of the import (SpecAlt).                           *)

\* C34: when loadAlternateNames has reported completion every line of the
\* file has been read, no line is queued, no row is being applied, no row of
\* the batch waits to be applied, and no line was applied more than once.
C34_NothingLeftAtCompletion ==
  resolved =>
    /\ nread = fileLines
    /\ lineQueue = <<>>
    /\ InFlight = 0
    /\ \A i \in 1..Len(batch) : applied[LineOf(batch[i])] >= 1
    /\ \A i \in 1..fileLines : applied[i] <= 1

\* The reader is suspended before the input has closed, and nothing that
\* could resume it is in flight, scheduled or ready.
Stuck ==
  /\ paused /\ ~closed /\ ~EndDue
  /\ InFlight = 0 /\ immediates = 0 /\ micro = <<>> /\ chunkLeft = 0
  /\ eofKnown \/ nread < fileLines

\* C36: with every query of the store returning, the import of a finite file
\* reports completion in the end; the reader, once suspended, is resumed or
\* the input closes; and the reader is never suspended with nothing left
\* that would resume it.
C36_ImportCompletes ==
  /\ <>resolved
  /\ (paused /\ ~closed) ~> (~paused \/ closed)
  /\ []~Stuck

\* The places load of run r has reported completion and its alternate-names
\* load is on.
PlacesReported(r) == pc[r] \in {"altProbe", "altFetch", "altParse"}

\* C33: when the places load has reported completion every row of the places
\* dump has been applied: no INSERT of the run is pending while its
\* alternate-names load is on, and no existence check has missed a place
\* whose INSERT was pending.
C33_PlacesAppliedAtCompletion ==
  /\ \A r \in Runs : PlacesReported(r) => pendingCity[r] = {}
  /\ ~raced

\* C35: after one run on an empty store that ended without a fatal failure
\* the store has a Place for every row of the places dump with a valid id,
\* and an AlternateName for every row of the alternate-names dump that
\* passes the filter and names such a Place, and nothing else.
C35_CompleteRunStoresAll ==
  (pc[1] = "done" /\ pc[2] = "idle") =>
     /\ DOMAIN cities = ExpectedCityIds
     /\ DOMAIN alternate_names = ExpectedAltIds
     /\ \A a \in DOMAIN alternate_names : FromAltDump(a, alternate_names[a])

----------------------------------------------------------------------------
(* Properties of the substring tiers (SpecSearch).                          *)

\* The names of a stored place: its name, its ascii name, its alternate
\* names.
NamesOf(id) ==
  {cities[id].name, cities[id].ascii_name}
    \cup {alternate_names[a].alternate_name : a \in JoinedAlts(id)}

\* C37: a city of a result list has the score 80, 75 or 70 only if its name,
\* its ascii name or one of its alternate names contains the query as it is
\* written, without regard to case; and a city is in the list only if one of
\* its names contains the query so or is similar to it.
C37_SubstringIsLiteral ==
  resp.status = 200 =>
    \A i \in 1..Len(resp.rows) :
       resp.rows[i].type = "city" =>
          LET id == resp.rows[i].geonameid
              score == resp.rows[i].score
          IN /\ RatEq(score, Rat(80, 1)) => Contains(cities[id].name, req.q)
             /\ RatEq(score, Rat(75, 1)) => Contains(cities[id].ascii_name, req.q)
             /\ RatEq(score, Rat(70, 1)) =>
                   \E a \in JoinedAlts(id) : Contains(alternate_names[a].alternate_name, req.q)
             /\ \E n \in NamesOf(id) : Contains(n, req.q) \/ SimilarTo(n, req.q)

----------------------------------------------------------------------------
(* Properties of the key check (SpecAuth).                                  *)

\* The key a request shows: the X-API-Key header, or the api_key parameter
\* when there is no header; and whether it is a key of the list.
ShownKey(r) == IF r.header \in {Absent, <<>>} THEN r.param ELSE r.header
HasConfiguredKey(r) == ShownKey(r) \notin {Absent, <<>>} /\ ShownKey(r) \in validApiKeys

\* The parameters of a request pass the test of its handler.
ParametersValid(r) ==
  IF r.path = "/search" THEN r.q # Absent /\ Len(r.q) >= 2
  ELSE r.lat # Absent /\ r.lon # Absent

\* C32: a request of /search or /reverse that shows no key, or a key that is
\* not in the list, is answered as unauthorized, whatever its parameters
\* are, and no query is sent for it; a request with a key of the list goes to
\* the handler: a validation error for parameters that fail its test, and a
\* query otherwise, answered with a list or the failure.
C32_KeyCheckedFirst ==
  req # NoRequest =>
    /\ ~HasConfiguredKey(req) => resp = unauthorized
    /\ HasConfiguredKey(req) =>
         /\ ~ParametersValid(req) => resp.status = 400
         /\ ParametersValid(req) => resp = NoResponse \/ resp.status \in {200, 500}

\* C32 witness: a search without q, with a key in the query string that is
\* not in the list and no header, has been answered as unauthorized.
C32_Witness ==
  /\ req # NoRequest
  /\ req.path = "/search" /\ req.q = Absent
  /\ req.header = Absent /\ req.param = <<"k">>
  /\ resp = unauthorized

----------------------------------------------------------------------------
(* Properties of the region of a place (SpecRegion).                        *)

====
